---------------------------- MODULE Spec2Model ----------------------------
(***************************************************************************)
(* LeanDoc: the line lexer (Lexer::setInput, Lexer::classify) and the      *)
(* recursive-descent block parser (Parser::parse and its parse routines)   *)
(* as a state machine.  A text is a sequence of one-character strings; the *)
(* recursion of the parser is an explicit stack of frames, one frame per   *)
(* active parseDocument / parseSection / parseDelimited / parseDirective / *)
(* parseList call, and one action per loop of these routines.              *)
(***************************************************************************)
EXTENDS Integers, Sequences, FiniteSets, TLC

(***************************************************************************)
(* QString helpers.  Positions are 1-based here, 0-based in Qt.            *)
(***************************************************************************)
IsSpace(c) == c \in {" ", "\t", "\r", "\n"}

Min(a, b) == IF a < b THEN a ELSE b

Max(a, b) == IF a < b THEN b ELSE a

\* QString::mid(i) with a 0-based i
Mid(s, i) == IF i >= Len(s) THEN <<>> ELSE SubSeq(s, i + 1, Len(s))

\* QString::left(n)
Left(s, n) == SubSeq(s, 1, Min(n, Len(s)))

\* QString::chop(n)
Chop(s, n) == SubSeq(s, 1, Len(s) - Min(n, Len(s)))

StartsWith(s, p) == Len(s) >= Len(p) /\ SubSeq(s, 1, Len(p)) = p

EndsWith(s, p) == Len(s) >= Len(p) /\ SubSeq(s, Len(s) - Len(p) + 1, Len(s)) = p

RECURSIVE TrimLeft(_)
TrimLeft(s) == IF s # <<>> /\ IsSpace(Head(s)) THEN TrimLeft(Tail(s)) ELSE s

RECURSIVE TrimRight(_)
TrimRight(s) ==
    IF s # <<>> /\ IsSpace(s[Len(s)]) THEN TrimRight(SubSeq(s, 1, Len(s) - 1)) ELSE s

\* QString::trimmed()
Trimmed(s) == TrimRight(TrimLeft(s))

\* QString::indexOf(p): the 0-based place of the first occurrence of p, or -1
IndexOf(s, p) ==
    LET hits == {i \in 0..(Len(s) - Len(p)) : SubSeq(s, i + 1, i + Len(p)) = p}
    IN  IF hits = {} THEN -1 ELSE CHOOSE i \in hits : \A j \in hits : i <= j

\* QString::lastIndexOf(c) for one character
LastIndexOf(s, c) ==
    LET hits == {i \in 0..(Len(s) - 1) : s[i + 1] = c}
    IN  IF hits = {} THEN -1 ELSE CHOOSE i \in hits : \A j \in hits : i >= j

\* QStringList::join(sep)
RECURSIVE Join(_, _)
Join(ss, sep) ==
    IF ss = <<>> THEN <<>>
    ELSE IF Len(ss) = 1 THEN ss[1]
    ELSE ss[1] \o sep \o Join(Tail(ss), sep)

\* QString::split('\n'): empty parts are kept, so n separators give n+1 parts
RECURSIVE SplitLines(_, _)
SplitLines(text, cur) ==
    IF text = <<>> THEN <<cur>>
    ELSE IF Head(text) = "\n" THEN <<cur>> \o SplitLines(Tail(text), <<>>)
    ELSE SplitLines(Tail(text), Append(cur, Head(text)))

(***************************************************************************)
(* The line lexer.                                                         *)
(***************************************************************************)
LineTok(kind, lineNo, raw, level, head, rest) ==
    [kind |-> kind, lineNo |-> lineNo, raw |-> raw, level |-> level,
     head |-> head, rest |-> rest]

\* Lexer::startsWithRun: the length of the run of ch at the start of s, at most maxN
RECURSIVE RunLen(_, _, _)
RunLen(s, ch, maxN) ==
    IF s # <<>> /\ maxN > 0 /\ Head(s) = ch THEN 1 + RunLen(Tail(s), ch, maxN - 1) ELSE 0

\* the trailing colons counted by the DESC_TERM rule
RECURSIVE TrailingColons(_)
TrailingColons(s) ==
    IF s # <<>> /\ s[Len(s)] = ":" THEN 1 + TrailingColons(SubSeq(s, 1, Len(s) - 1)) ELSE 0

MarkerLen == 6

ColonColon == <<":", ":">>
IfdefLit == <<"i", "f", "d", "e", "f", ":", ":">>
IfndefLit == <<"i", "f", "n", "d", "e", "f", ":", ":">>
EndifLit == <<"e", "n", "d", "i", "f", ":", ":">>
IncludeLit == <<"i", "n", "c", "l", "u", "d", "e", ":", ":">>
AdmonitionLits ==
    { <<"N", "O", "T", "E", ":">>, <<"T", "I", "P", ":">>,
      <<"I", "M", "P", "O", "R", "T", "A", "N", "T", ":">>,
      <<"C", "A", "U", "T", "I", "O", "N", ":">>,
      <<"W", "A", "R", "N", "I", "N", "G", ":">> }

\* the marker rules of classify: a run of 1..6 ch followed by a space
MarkerRun(s, ch) ==
    LET n == RunLen(s, ch, MarkerLen)
    IN  IF n >= 1 /\ Len(s) > n /\ IsSpace(s[n + 1]) THEN n ELSE 0

classify(line, lineNo) ==
    LET s == Trimmed(line)
        p == IndexOf(s, ColonColon)
        eqN == MarkerRun(s, "=")
        starN == MarkerRun(s, "*")
        dotN == MarkerRun(s, ".")
        c == TrailingColons(s)
        colon == IndexOf(s, <<":">>)
        T(kind, level, head, rest) == LineTok(kind, lineNo, line, level, head, rest)
    IN  IF s = <<>> THEN T("BLANK", 0, <<>>, <<>>)
        ELSE IF StartsWith(s, <<"[", "[">>) /\ EndsWith(s, <<"]", "]">>)
            THEN T("BLOCK_ANCHOR", 0, <<>>, s)
        ELSE IF Len(s) >= 2 /\ s[1] = "." /\ ~IsSpace(s[2])
            THEN T("BLOCK_TITLE", 0, <<>>, Mid(s, 1))
        ELSE IF StartsWith(s, IfdefLit) \/ StartsWith(s, IfndefLit) \/ StartsWith(s, EndifLit)
            THEN T("DIRECTIVE", 0, Left(s, p), Mid(s, p + 2))
        ELSE IF StartsWith(s, IncludeLit)
            THEN T("BLOCK_MACRO", 0, Left(s, p), Mid(s, p + 2))
        ELSE IF p > 0 /\ IndexOf(s, <<"[">>) > p
            THEN T("BLOCK_MACRO", 0, Left(s, p), Mid(s, p + 2))
        ELSE IF StartsWith(s, <<"/", "/">>)
            THEN T("LINE_COMMENT", 0, <<>>, Mid(s, 2))
        ELSE IF s \in {<<"'", "'", "'">>, <<"-", "-", "-">>, <<"*", "*", "*">>}
            THEN T("THEMATIC", 0, <<>>, <<>>)
        ELSE IF StartsWith(s, <<"<", "<", "<">>)
            THEN T("PAGEBREAK", 0, <<>>, Trimmed(Mid(s, 3)))
        ELSE IF eqN > 0 THEN T("SECTION", eqN, <<>>, Trimmed(Mid(s, eqN)))
        ELSE IF starN > 0 THEN T("UL_ITEM", starN, <<>>, Trimmed(Mid(s, starN)))
        ELSE IF dotN > 0 THEN T("OL_ITEM", dotN, <<>>, Trimmed(Mid(s, dotN)))
        ELSE IF s = <<"+">> THEN T("LIST_CONT", 0, <<>>, <<>>)
        ELSE IF LastIndexOf(s, ":") >= 1 /\ EndsWith(s, ColonColon) /\ c >= 2
            THEN T("DESC_TERM", c, <<>>, Trimmed(Left(s, Len(s) - c)))
        ELSE IF s = <<"|", "=", "=", "=">> THEN T("TABLE_DELIM", 0, <<>>, <<>>)
        ELSE IF StartsWith(s, <<"|">>) THEN T("TABLE_LINE", 0, <<>>, line)
        ELSE IF s = <<"-", "-", "-", "-">> THEN T("DELIM_LISTING", 0, <<>>, <<>>)
        ELSE IF s = <<".", ".", ".", ".">> THEN T("DELIM_LITERAL", 0, <<>>, <<>>)
        ELSE IF s = <<"_", "_", "_", "_">> THEN T("DELIM_QUOTE", 0, <<>>, <<>>)
        ELSE IF s = <<"=", "=", "=", "=">> THEN T("DELIM_EXAMPLE", 0, <<>>, <<>>)
        ELSE IF s = <<"*", "*", "*", "*">> THEN T("DELIM_SIDEBAR", 0, <<>>, <<>>)
        ELSE IF s = <<"-", "-">> THEN T("DELIM_OPEN", 0, <<>>, <<>>)
        ELSE IF s = <<"/", "/", "/", "/">> THEN T("DELIM_COMMENT", 0, <<>>, <<>>)
        ELSE IF \E a \in AdmonitionLits : StartsWith(s, a)
            THEN T("ADMONITION", 0, Left(s, colon), Trimmed(Mid(s, colon + 1)))
        ELSE T("TEXT", 0, <<>>, line)

\* a setInput that skips an empty last line (a split that drops it)
setInput_SkipEmptyLast(text) ==
    LET all == SplitLines(text, <<>>)
        lines == IF Len(all) > 1 /\ all[Len(all)] = <<>>
                 THEN SubSeq(all, 1, Len(all) - 1) ELSE all
    IN  [i \in 1..Len(lines) |-> classify(lines[i], i)]
        \o << LineTok("EOF", Len(lines) + 1, <<>>, 0, <<>>, <<>>) >>

\* Lexer::setInput: one token per line, then the EOF token
setInput(text) ==
    LET lines == SplitLines(text, <<>>)
    IN  [i \in 1..Len(lines) |-> classify(lines[i], i)]
        \o << LineTok("EOF", Len(lines) + 1, <<>>, 0, <<>>, <<>>) >>

\* a peek that wraps to the first token when the index is past the list
peek_WrapToFirst(toks, pos, k) ==
    LET idx == pos + k
        lo == IF idx < 0 THEN 0 ELSE idx
        cl == IF lo >= Len(toks) THEN 0 ELSE lo
    IN  toks[cl + 1]

\* Lexer::peek(k) at cursor pos (0-based), clamped to the token list
peek(toks, pos, k) ==
    LET idx == pos + k
        lo == IF idx < 0 THEN 0 ELSE idx
        cl == IF lo >= Len(toks) THEN Len(toks) - 1 ELSE lo
    IN  toks[cl + 1]

\* the cursor after Lexer::take()
takePos(toks, pos) == IF pos < Len(toks) THEN pos + 1 ELSE pos

(***************************************************************************)
(* The state of one Parser object and of the parse call it runs.           *)
(***************************************************************************)
VARIABLES
    input,      \* the text handed to Parser::parse
    dtoks,      \* Lexer::dtoks
    dpos,       \* Lexer::dpos, 0-based
    dhaveErr,   \* Parser::dhaveErr
    derr,       \* Parser::derr
    nodes,      \* the Node objects allocated so far; a node's id is its index
    metas,      \* the BlockMeta objects allocated so far
    freed,      \* the ids of the nodes deleted by Node::deleteTree
    stack,      \* the active parse routines, the innermost last
    root,       \* the local root of Parser::parse, then its return value (0: null)
    outErr,     \* *outErr of Parser::parse
    pc,         \* "idle": before the call, "parsing", "done": parse has returned;
                \* "lexing": a Lexer used on its own, after setInput
    ltok,       \* the token returned by the last Lexer::take() of a Lexer used on its own
    gen,        \* the results of the TypstGenerator::generate calls so far
    drv,        \* leandoc2typst: the arguments of main, its exit code and its output
    dpeek       \* the largest k of the calls la(k) of the parse call so far

vars ==
    <<input, dtoks, dpos, dhaveErr, derr, nodes, metas, freed, stack, root, outErr, pc,
      ltok, gen, drv, dpeek>>

\* main has not exited
NotExited == 0 - 1

\* leandoc2typst before main has looked at its arguments: no exit code, the
\* output file untouched, nothing dumped
NoRun ==
    [args |-> [inPath |-> FALSE, modeAst |-> FALSE, outPath |-> <<>>, noRaw |-> FALSE],
     code |-> NotExited, io |-> "none", genFailed |-> FALSE, dumped |-> FALSE,
     typ |-> <<>>, file |-> "untouched", text |-> <<>>]

\* LineTok(): kind EOF, lineNo 0, level 0
NoTok == LineTok("EOF", 0, <<>>, 0, <<>>, <<>>)

\* ParseError(): line 0, column 0, empty message
NoError == [line |-> 0, column |-> 0, message |-> ""]

La(pos, k) == peek(dtoks, pos, k)

Take(pos) == takePos(dtoks, pos)

\* Lexer::atEnd
atEnd(pos) == La(pos, 0).kind = "EOF"

RECURSIVE skipBlankAndLineComments(_)
skipBlankAndLineComments(pos) ==
    IF La(pos, 0).kind \in {"BLANK", "LINE_COMMENT"}
    THEN skipBlankAndLineComments(Take(pos))
    ELSE pos

(***************************************************************************)
(* Nodes, block metadata and frames.  A node keeps the fields the parse    *)
(* routines set: kv entries are the fields level, ltype, check, delim and  *)
(* stem; inl is the string handed to parseInlineContent for the node's     *)
(* inline children.  lines of a BlockMeta records the lines of the         *)
(* metadata tokens it was built from.                                      *)
(***************************************************************************)
NewNode(kind, line, meta) ==
    [kind |-> kind, line |-> line, meta |-> meta, level |-> 0, ltype |-> "",
     check |-> <<>>, delim |-> "", stem |-> FALSE, name |-> <<>>, target |-> <<>>,
     text |-> <<>>, inl |-> <<>>, hdr |-> <<>>, children |-> <<>>]

NewMeta ==
    [anchorId |-> <<>>, anchorText |-> <<>>, title |-> <<>>, attrs |-> <<>>,
     lines |-> {}]

Frame(fn, node, level, k, item) ==
    [fn |-> fn, node |-> node, level |-> level, k |-> k, item |-> item]

NoFrame == Frame("none", 0, 0, "", 0)

\* Node::add
AddChild(ns, parent, child) ==
    [ns EXCEPT ![parent].children = Append(@, child)]

\* what one parse routine hands back: a finished node, a routine to enter
\* (its frame), or a thrown ParseError
RNode(pos, ns, ms, id) ==
    [tag |-> "node", pos |-> pos, nodes |-> ns, metas |-> ms, node |-> id,
     frame |-> NoFrame, err |-> NoError]

RCall(pos, ns, ms, frame) ==
    [tag |-> "call", pos |-> pos, nodes |-> ns, metas |-> ms, node |-> 0,
     frame |-> frame, err |-> NoError]

\* Parser::error(msg, row, col)
RError(pos, ns, ms, msg, row, col) ==
    [tag |-> "error", pos |-> pos, nodes |-> ns, metas |-> ms, node |-> 0,
     frame |-> NoFrame, err |-> [line |-> row, column |-> col, message |-> msg]]

\* Parser::stripOuter
stripOuter(s, a, b) ==
    LET t == Trimmed(s)
    IN  IF Len(t) >= 2 /\ t[1] = a /\ t[Len(t)] = b THEN SubSeq(t, 2, Len(t) - 1) ELSE t

Contains(s, c) == \E i \in 1..Len(s) : s[i] = c

(***************************************************************************)
(* Block metadata.                                                         *)
(***************************************************************************)
\* the BLOCK_ANCHOR branch of parseBlockMetaOpt, for the text between the
\* brackets of "[[id, text]]"
AnchorFields(m, inner, lineNo) ==
    IF IndexOf(inner, <<",">>) < 0
    THEN [m EXCEPT !.anchorId = Trimmed(inner), !.lines = @ \cup {lineNo}]
    ELSE [m EXCEPT !.anchorId = Trimmed(Left(inner, IndexOf(inner, <<",">>))),
                   !.anchorText = Trimmed(Mid(inner, IndexOf(inner, <<",">>) + 1)),
                   !.lines = @ \cup {lineNo}]

MetaAnchor(m, t) ==
    AnchorFields(m, stripOuter(stripOuter(t.rest, "[", "]"), "[", "]"), t.lineNo)

\* the BLOCK_TITLE branch of parseBlockMetaOpt
MetaTitle(pos, m) ==
    IF La(pos, 0).kind = "BLOCK_TITLE"
    THEN [pos |-> Take(pos),
          meta |-> [m EXCEPT !.title = Trimmed(La(pos, 0).rest),
                             !.lines = @ \cup {La(pos, 0).lineNo}]]
    ELSE [pos |-> pos, meta |-> m]

\* the BLOCK_ATTRS branch of parseBlockMetaOpt, then the title; the attribute
\* line is kept as read (classify yields no BLOCK_ATTRS token, so parseAttrList
\* is never reached)
MetaAttrs(pos, m) ==
    IF La(pos, 0).kind = "BLOCK_ATTRS"
    THEN MetaTitle(Take(pos), [m EXCEPT !.attrs = Append(@, La(pos, 0).rest),
                                        !.lines = @ \cup {La(pos, 0).lineNo}])
    ELSE MetaTitle(pos, m)

\* the three optional lines read by parseBlockMetaOpt: at most one anchor,
\* one attribute line and one title, in this order
MetaRun(pos) ==
    IF La(pos, 0).kind = "BLOCK_ANCHOR"
    THEN MetaAttrs(Take(pos), MetaAnchor(NewMeta, La(pos, 0)))
    ELSE MetaAttrs(pos, NewMeta)

\* the BlockMeta of run r allocated in ms with index id, handed out as meta
MetaResult(r, ms, meta) == [pos |-> r.pos, metas |-> Append(ms, r.meta), meta |-> meta]

\* a parseBlockMetaOpt that hands out the BlockMeta allocated before this one
parseBlockMetaOpt_Previous(pos, ms) ==
    IF La(pos, 0).kind \notin {"BLOCK_ANCHOR", "BLOCK_ATTRS", "BLOCK_TITLE"}
    THEN [pos |-> pos, metas |-> ms, meta |-> 0]
    ELSE MetaResult(MetaRun(pos), ms, Len(ms))

\* Parser::parseBlockMetaOpt: meta is 0 when the next line is no metadata line
parseBlockMetaOpt(pos, ms) ==
    IF La(pos, 0).kind \notin {"BLOCK_ANCHOR", "BLOCK_ATTRS", "BLOCK_TITLE"}
    THEN [pos |-> pos, metas |-> ms, meta |-> 0]
    ELSE MetaResult(MetaRun(pos), ms, Len(ms) + 1)

(***************************************************************************)
(* The parse routines that call no other parse routine.                    *)
(***************************************************************************)
\* Parser::parseAdmonitionParagraph
parseAdmonitionParagraph(pos, ns, ms, m) ==
    LET t == La(pos, 0)
        a == [NewNode("AdmonitionParagraph", t.lineNo, m) EXCEPT
                 !.name = t.head, !.inl = t.rest]
    IN  RNode(Take(pos), Append(ns, a), ms, Len(ns) + 1)

\* the tokens that end a normal paragraph after one of its lines
ParagraphEnders ==
    {"SECTION", "UL_ITEM", "OL_ITEM", "DESC_TERM", "TABLE_DELIM", "DELIM_LISTING",
     "DELIM_LITERAL", "ADMONITION", "BLOCK_MACRO", "DIRECTIVE"}

\* the line loop of parseParagraphOrLiteral: the cursor and the lines gathered
RECURSIVE ParagraphLines(_, _, _)
ParagraphLines(pos, literal, lines) ==
    LET t == La(pos, 0)
        s == Trimmed(t.raw)
        stop == IF literal THEN t.raw = <<>> \/ ~IsSpace(t.raw[1]) ELSE s = <<>>
        got == Append(lines, IF literal THEN Mid(t.raw, 1) ELSE s)
        nxt == Take(pos)
    IN  IF t.kind # "TEXT" \/ stop THEN [pos |-> pos, lines |-> lines]
        ELSE IF La(nxt, 0).kind = "BLANK" THEN [pos |-> nxt, lines |-> got]
        ELSE IF ~literal /\ La(nxt, 0).kind \in ParagraphEnders
            THEN [pos |-> nxt, lines |-> got]
        ELSE ParagraphLines(nxt, literal, got)

\* Parser::parseParagraphOrLiteral
parseParagraphOrLiteral(pos, ns, ms, m) ==
    LET t == La(pos, 0)
        literal == t.kind = "TEXT" /\ t.raw # <<>> /\ IsSpace(t.raw[1])
        r == ParagraphLines(pos, literal, <<>>)
        p == NewNode(IF literal THEN "LiteralParagraph" ELSE "Paragraph", t.lineNo, m)
        q == IF literal THEN [p EXCEPT !.text = Join(r.lines, <<"\n">>)]
             ELSE [p EXCEPT !.inl = Join(r.lines, <<" ">>)]
    IN  RNode(r.pos, Append(ns, q), ms, Len(ns) + 1)

\* Parser::parseBlockMacro
parseBlockMacro(pos, ns, ms, m) ==
    LET t == La(pos, 0)
        n == [NewNode("BlockMacro", t.lineNo, m) EXCEPT !.name = t.head, !.target = t.rest]
    IN  RNode(Take(pos), Append(ns, n), ms, Len(ns) + 1)

\* Parser::parseBreakOrComment
parseBreakOrComment(pos, ns, ms, m) ==
    LET t == La(pos, 0)
        kind == CASE t.kind = "LINE_COMMENT" -> "LineComment"
                  [] t.kind = "THEMATIC" -> "ThematicBreak"
                  [] OTHER -> "PageBreak"
        text == IF t.kind = "THEMATIC" THEN Trimmed(t.raw) ELSE t.rest
        n == [NewNode(kind, t.lineNo, m) EXCEPT !.text = text]
    IN  RNode(Take(pos), Append(ns, n), ms, Len(ns) + 1)

RawDelims == {"DELIM_LISTING", "DELIM_LITERAL", "DELIM_PASSTHROUGH", "DELIM_COMMENT"}

BlockDelims ==
    RawDelims \cup {"DELIM_QUOTE", "DELIM_EXAMPLE", "DELIM_SIDEBAR", "DELIM_OPEN",
                    "STEM_ATTR_LINE"}

\* a raw loop that keeps the trimmed lines
RECURSIVE RawLines_Trimmed(_, _, _)
RawLines_Trimmed(pos, k, lines) ==
    IF ~atEnd(pos) /\ La(pos, 0).kind # k
    THEN RawLines_Trimmed(Take(pos), k, Append(lines, Trimmed(La(pos, 0).raw)))
    ELSE [pos |-> pos, lines |-> lines]

\* the raw loop of parseDelimited: take lines up to EOF or a token of kind k
RECURSIVE RawLines(_, _, _)
RawLines(pos, k, lines) ==
    IF ~atEnd(pos) /\ La(pos, 0).kind # k
    THEN RawLines(Take(pos), k, Append(lines, La(pos, 0).raw))
    ELSE [pos |-> pos, lines |-> lines]

\* an expect that lets a block end at the end of the input
expectClose_AtEof(pos, ns, ms, k, b) ==
    IF La(pos, 0).kind = k
    THEN RNode(Take(pos), ns, ms, b)
    ELSE RNode(pos, ns, ms, b)

\* Parser::expect(k, "closing delimiter") at the end of parseDelimited, for
\* the block b held in ns
expectClose(pos, ns, ms, k, b) ==
    IF La(pos, 0).kind = k
    THEN RNode(Take(pos), ns, ms, b)
    ELSE RError(pos, ns, ms, "Expected closing delimiter", La(pos, 0).lineNo, 1)

\* Parser::parseDelimited up to its container loop: a raw block is read
\* whole, a container block is entered
parseDelimited(pos0, ns, ms, m) ==
    LET isStem == La(pos0, 0).kind = "STEM_ATTR_LINE"
        pos == IF isStem THEN Take(pos0) ELSE pos0
        open == La(pos, 0)
        k == open.kind
        b == [NewNode("DelimitedBlock", open.lineNo, m) EXCEPT !.delim = k, !.stem = isStem]
        id == Len(ns) + 1
        r == RawLines(Take(pos), k, <<>>)
        e == expectClose(r.pos, Append(ns, b), ms, k, id)
    IN  IF k \in RawDelims \/ isStem
        THEN IF e.tag = "node"
             THEN [e EXCEPT !.nodes[id].text = Join(r.lines, <<"\n">>)]
             ELSE e
        ELSE RCall(Take(pos), Append(ns, b), ms, Frame("delimited", id, 0, k, 0))

(***************************************************************************)
(* Tables.                                                                 *)
(***************************************************************************)
\* splitUnescapedPipe: the loop over the characters of the line; run is the
\* number of backslashes immediately before the current character
RECURSIVE SplitPipeLoop(_, _, _, _)
SplitPipeLoop(line, parts, cur, run) ==
    IF line = <<>> THEN Append(parts, cur)
    ELSE
        LET c == Head(line)
        IN  IF c = "|"
            THEN IF run % 2 = 0
                 THEN SplitPipeLoop(Tail(line), Append(parts, cur), <<>>, 0)
                 ELSE SplitPipeLoop(Tail(line), parts,
                                    Append(IF cur # <<>> THEN Chop(cur, 1) ELSE cur, "|"), 0)
            ELSE SplitPipeLoop(Tail(line), parts, Append(cur, c),
                               IF c = "\\" THEN run + 1 ELSE 0)

\* a split at every '|', escaped or not
RECURSIVE splitEveryPipe(_)
splitEveryPipe(line) ==
    IF IndexOf(line, <<"|">>) < 0 THEN <<line>>
    ELSE <<Left(line, IndexOf(line, <<"|">>))>>
             \o splitEveryPipe(Mid(line, IndexOf(line, <<"|">>) + 1))

splitUnescapedPipe(line) == SplitPipeLoop(line, <<>>, <<>>, 0)

\* Parser::readCells: one TableCell per part after the first one; the cell's
\* inline children are parsed from the trimmed part
readCells(rowTok) ==
    LET parts == splitUnescapedPipe(rowTok.raw)
    IN  [i \in 1..(Len(parts) - 1) |->
            [NewNode("TableCell", rowTok.lineNo, 0) EXCEPT !.inl = Trimmed(parts[i + 1])]]

\* a row loop that gives up the lines it has read when the input ends
RECURSIVE TableParts_LostAtEof(_, _)
TableParts_LostAtEof(pos, parts) ==
    IF atEnd(pos) THEN [pos |-> pos, parts |-> <<>>]
    ELSE IF La(pos, 0).kind = "TABLE_DELIM" THEN [pos |-> Take(pos), parts |-> parts]
    ELSE IF La(pos, 0).kind # "TABLE_LINE" THEN TableParts_LostAtEof(Take(pos), parts)
    ELSE TableParts_LostAtEof(Take(pos), Append(parts, readCells(La(pos, 0))))

\* the row loop of parseTable: up to EOF or the closing |===, only the
\* TABLE_LINE tokens give cells
RECURSIVE TableParts(_, _)
TableParts(pos, parts) ==
    IF atEnd(pos) THEN [pos |-> pos, parts |-> parts]
    ELSE IF La(pos, 0).kind = "TABLE_DELIM" THEN [pos |-> Take(pos), parts |-> parts]
    ELSE IF La(pos, 0).kind # "TABLE_LINE" THEN TableParts(Take(pos), parts)
    ELSE TableParts(Take(pos), Append(parts, readCells(La(pos, 0))))

RECURSIVE Flatten(_)
Flatten(ss) == IF ss = <<>> THEN <<>> ELSE Head(ss) \o Flatten(Tail(ss))

\* a parseTable without the width test
widthError_Never(parts) == FALSE

\* the width test of parseTable: the cells after the first line do not fill
\* whole rows of the width of the first line
widthError(parts) ==
    (Len(Flatten(parts)) - Len(parts[1])) % Len(parts[1]) # 0

\* one row per table line, whatever its number of cells
tableRows_ByLine(parts) ==
    [j \in 1..Len(parts) |->
        [i \in 1..Len(parts[j]) |-> Len(Flatten(SubSeq(parts, 1, j - 1))) + i]]

\* the rows parseTable builds, each the places (in reading order) of its
\* cells: the first line is the first row, the cells of the other lines are
\* dealt into rows as wide as the first
tableRows(parts) ==
    LET W == Len(parts[1])
        rows == (Len(Flatten(parts)) - W) \div W
    IN  [j \in 1..(1 + rows) |-> [i \in 1..W |-> (j - 1) * W + i]]

\* Parser::parseTable.  The nodes are allocated in the order of the code:
\* the table, the cells of every line, the first row, the other rows.
parseTable(pos, ns, ms, m) ==
    LET open == La(pos, 0)
        tid == Len(ns) + 1
        t == NewNode("Table", open.lineNo, m)
        r == TableParts(Take(pos), <<>>)
        parts == r.parts
        all == Flatten(parts)
        rid == tid + Len(all)              \* the id before the first row's
        places == tableRows(parts)
        row(j) == [NewNode("TableRow", all[places[j][1]].line, 0) EXCEPT
                      !.children = [i \in 1..Len(places[j]) |-> tid + places[j][i]]]
        withCells == Append(ns, t) \o all
        first == AddChild(Append(withCells, row(1)), tid, rid + 1)
        full == [j \in 1..Len(places) |-> row(j)]
        done == [t EXCEPT !.children = [j \in 1..Len(places) |-> rid + j]]
    IN  IF parts = <<>> \/ parts[1] = <<>>
        THEN RNode(r.pos, withCells, ms, tid)
        ELSE IF widthError(parts)
        THEN RError(r.pos, first, ms,
                    "the number of cells is not compatible with the table size",
                    all[1].line, 1)
        ELSE RNode(r.pos, [withCells \o full EXCEPT ![tid] = done], ms, tid)

(***************************************************************************)
(* The parse routines with a loop that calls parseBlock: each is entered   *)
(* here (its node allocated, its frame handed back) and its loop is an     *)
(* action below.                                                           *)
(***************************************************************************)
\* Parser::parseSection up to its loop
parseSection(pos, ns, ms, m) ==
    LET t == La(pos, 0)
        s == [NewNode("Section", t.lineNo, m) EXCEPT !.level = t.level, !.name = t.rest]
    IN  RCall(Take(pos), Append(ns, s), ms, Frame("section", Len(ns) + 1, t.level, "", 0))

IfDirectives ==
    { <<"i", "f", "d", "e", "f">>, <<"i", "f", "n", "d", "e", "f">>,
      <<"i", "f", "e", "v", "a", "l">> }

\* Parser::parseDirective up to its loop; a directive other than
\* ifdef/ifndef/ifeval has no body
parseDirective(pos, ns, ms, m) ==
    LET t == La(pos, 0)
        n == [NewNode("Directive", t.lineNo, m) EXCEPT !.name = t.head, !.text = t.rest]
        id == Len(ns) + 1
    IN  IF t.head \in IfDirectives
        THEN RCall(Take(pos), Append(ns, n), ms, Frame("directive", id, 0, "", 0))
        ELSE RNode(Take(pos), Append(ns, n), ms, id)

\* Parser::parseList up to its loop: the list type is that of the first token
parseList(pos, ns, ms, m) ==
    LET k == La(pos, 0).kind
        lst == [NewNode("List", La(pos, 0).lineNo, m) EXCEPT
                   !.ltype = CASE k = "DESC_TERM" -> "description"
                               [] k = "OL_ITEM" -> "ordered"
                               [] OTHER -> "unordered"]
    IN  RCall(pos, Append(ns, lst), ms, Frame("list", Len(ns) + 1, 0, "", 0))

\* the dispatch of Parser::parseBlock on the token after the metadata
dispatchBlock(pos, ns, ms, m) ==
    LET k == La(pos, 0).kind
    IN  CASE k = "SECTION" -> parseSection(pos, ns, ms, m)
          [] k = "ADMONITION" -> parseAdmonitionParagraph(pos, ns, ms, m)
          [] k \in {"UL_ITEM", "OL_ITEM", "DESC_TERM"} -> parseList(pos, ns, ms, m)
          [] k = "TABLE_DELIM" -> parseTable(pos, ns, ms, m)
          [] k \in BlockDelims -> parseDelimited(pos, ns, ms, m)
          [] k = "BLOCK_MACRO" -> parseBlockMacro(pos, ns, ms, m)
          [] k = "DIRECTIVE" -> parseDirective(pos, ns, ms, m)
          [] k \in {"THEMATIC", "PAGEBREAK", "LINE_COMMENT"} ->
                parseBreakOrComment(pos, ns, ms, m)
          [] OTHER -> parseParagraphOrLiteral(pos, ns, ms, m)

\* the dispatch after the metadata read mo
dispatchAfter(mo, ns) == dispatchBlock(mo.pos, ns, mo.metas, mo.meta)

\* Parser::parseBlock
parseBlock(pos, ns, ms) == dispatchAfter(parseBlockMetaOpt(pos, ms), ns)

(***************************************************************************)
(* Parser::parseDocumentHeader: the title, author and revision lines and   *)
(* the :name: value attributes, as the (key, value) entries put in doc->kv *)
(***************************************************************************)
RECURSIVE HeaderAttrs(_, _)
HeaderAttrs(pos, kv) ==
    LET s == Trimmed(La(pos, 0).raw)
        second == IF Len(s) > 1 THEN
                      (IF IndexOf(Mid(s, 1), <<":">>) < 0 THEN -1
                       ELSE IndexOf(Mid(s, 1), <<":">>) + 1)
                  ELSE -1
    IN  IF La(pos, 0).kind # "TEXT" \/ ~StartsWith(s, <<":">>) \/ second <= 1
        THEN [pos |-> pos, kv |-> kv]
        ELSE HeaderAttrs(Take(pos),
                 Append(kv, <<"attr", Trimmed(SubSeq(s, 2, second)),
                              Trimmed(Mid(s, second + 1))>>))

parseDocumentHeader(pos0) ==
    LET hasTitle == La(pos0, 0).kind = "SECTION" /\ La(pos0, 0).level = 1
        kv1 == IF hasTitle THEN << <<"title", La(pos0, 0).rest>> >> ELSE <<>>
        pos1 == IF hasTitle THEN skipBlankAndLineComments(Take(pos0)) ELSE pos0
        s1 == Trimmed(La(pos1, 0).raw)
        hasAuthor == La(pos1, 0).kind = "TEXT" /\ Contains(s1, "<") /\ Contains(s1, ">")
        kv2 == IF hasAuthor THEN Append(kv1, <<"authorLine", s1>>) ELSE kv1
        pos2 == IF hasAuthor THEN skipBlankAndLineComments(Take(pos1)) ELSE pos1
        s2 == Trimmed(La(pos2, 0).raw)
        hasRev == La(pos2, 0).kind = "TEXT" /\ StartsWith(s2, <<"v">>)
        kv3 == IF hasRev THEN Append(kv2, <<"revisionLine", s2>>) ELSE kv2
        pos3 == IF hasRev THEN skipBlankAndLineComments(Take(pos2)) ELSE pos2
    IN  HeaderAttrs(pos3, kv3)

(***************************************************************************)
(* Calls and returns between the parse routines.                           *)
(***************************************************************************)
\* Node::deleteTree: the node and everything below it
RECURSIVE deleteTree(_, _)
deleteTree(ns, id) ==
    {id} \cup UNION {deleteTree(ns, ns[id].children[i]) : i \in 1..Len(ns[id].children)}

\* what the routine of frame f does with the node id that its callee hands
\* back, up to the next test of its loop: the block loops add it to their
\* node; parseList adds it to the current item, and the description branch
\* then closes the item
Deliver(f, id, pos, ns) ==
    IF f.fn = "list"
    THEN LET withCont == AddChild(ns, f.item, id)
         IN  IF ns[f.node].ltype = "description"
             THEN [frame |-> [f EXCEPT !.item = 0],
                   nodes |-> AddChild(withCont, f.node, f.item),
                   pos |-> skipBlankAndLineComments(pos)]
             ELSE [frame |-> f, nodes |-> withCont,
                   pos |-> skipBlankAndLineComments(pos)]
    ELSE [frame |-> f, nodes |-> AddChild(ns, f.node, id), pos |-> pos]

\* a routine returns node id to the routines of stk; with no routine left,
\* parseDocument has returned to Parser::parse, which returns the root
Return(stk, id, pos, ns, ms) ==
    IF stk = <<>>
    THEN /\ root' = id
         /\ outErr' = derr
         /\ pc' = "done"
         /\ stack' = <<>>
         /\ nodes' = ns
         /\ metas' = ms
         /\ dpos' = pos
         /\ UNCHANGED <<input, dtoks, dhaveErr, derr, freed, ltok, gen, drv>>
    ELSE LET d == Deliver(stk[Len(stk)], id, pos, ns)
         IN  /\ stack' = [stk EXCEPT ![Len(stk)] = d.frame]
             /\ nodes' = d.nodes
             /\ metas' = ms
             /\ dpos' = d.pos
             /\ UNCHANGED <<input, dtoks, dhaveErr, derr, freed, root, outErr, pc,
                            ltok, gen, drv>>

\* Parser::error throws; the catch block of Parser::parse deletes the tree of
\* its local root, which is still null while parseDocument runs, and parse
\* returns null
Throw(r) ==
    /\ dhaveErr' = TRUE
    /\ derr' = r.err
    /\ freed' = IF root # 0 THEN freed \cup deleteTree(r.nodes, root) ELSE freed
    /\ root' = 0
    /\ outErr' = r.err
    /\ pc' = "done"
    /\ stack' = <<>>
    /\ nodes' = r.nodes
    /\ metas' = r.metas
    /\ dpos' = r.pos
    /\ UNCHANGED <<input, dtoks, ltok, gen, drv>>

\* the routine on top of stk has called a parse routine with result r
Apply(r, stk) ==
    CASE r.tag = "node" -> Return(stk, r.node, r.pos, r.nodes, r.metas)
      [] r.tag = "call" ->
            /\ stack' = Append(stk, r.frame)
            /\ nodes' = r.nodes
            /\ metas' = r.metas
            /\ dpos' = r.pos
            /\ UNCHANGED <<input, dtoks, dhaveErr, derr, freed, root, outErr, pc, ltok,
                           gen, drv>>
      [] OTHER -> Throw(r)

Top == stack[Len(stack)]

Callers == SubSeq(stack, 1, Len(stack) - 1)

\* the bound of the model on the heap
MaxNodes == 16

Running(fn) ==
    /\ pc = "parsing"
    /\ stack # <<>>
    /\ Top.fn = fn
    /\ Len(nodes) < MaxNodes

(***************************************************************************)
(* The actions.                                                            *)
(***************************************************************************)
\* Parser::parse up to its call of parseDocument
Parse ==
    /\ pc = "idle"
    /\ dtoks' = setInput(input)
    /\ dpos' = 0
    /\ dhaveErr' = FALSE
    /\ derr' = NoError
    /\ root' = 0
    /\ stack' = <<Frame("document", 0, 0, "", 0)>>
    /\ pc' = "parsing"
    /\ dpeek' = 0
    /\ UNCHANGED <<input, nodes, metas, freed, outErr, ltok, gen, drv>>

\* Parser::parseDocument: its start (the Document node and the header),
\* then one iteration of its loop
ParseDocument ==
    /\ Running("document")
    /\ UNCHANGED dpeek
    /\ IF Top.node = 0
       THEN \E h \in {parseDocumentHeader(skipBlankAndLineComments(dpos))} :
                /\ nodes' = Append(nodes, [NewNode("Document", 1, 0) EXCEPT !.hdr = h.kv])
                /\ stack' = [stack EXCEPT ![Len(stack)].node = Len(nodes) + 1]
                /\ dpos' = h.pos
                /\ UNCHANGED <<input, dtoks, dhaveErr, derr, metas, freed, root, outErr,
                               pc, ltok, gen, drv>>
       ELSE \E pos \in {skipBlankAndLineComments(dpos)} :
                IF atEnd(dpos) THEN Return(Callers, Top.node, dpos, nodes, metas)
                ELSE IF atEnd(pos) THEN Return(Callers, Top.node, pos, nodes, metas)
                ELSE \E r \in {parseBlock(pos, nodes, metas)} : Apply(r, stack)

\* the largest k of the calls la(k) of one iteration of the loop of
\* Parser::parseSection: la(1) is read once the end of input, a section
\* break and a table line are excluded
sectionPeek_Far(from) ==
    LET pos == skipBlankAndLineComments(from)
        cur == La(pos, 0)
    IN  IF atEnd(from) \/ atEnd(pos) THEN 0
        ELSE IF cur.kind = "SECTION" /\ cur.level <= Top.level THEN 0
        ELSE IF cur.kind = "TABLE_LINE" THEN 0
        ELSE 7

sectionPeek(from) ==
    LET pos == skipBlankAndLineComments(from)
        cur == La(pos, 0)
    IN  IF atEnd(from) \/ atEnd(pos) THEN 0
        ELSE IF cur.kind = "SECTION" /\ cur.level <= Top.level THEN 0
        ELSE IF cur.kind = "TABLE_LINE" THEN 0
        ELSE 1

\* one iteration of the loop of Parser::parseSection
ParseSection ==
    /\ Running("section")
    /\ dpeek' = Max(dpeek, sectionPeek(dpos))
    /\ \E pos \in {skipBlankAndLineComments(dpos)} :
       LET cur == La(pos, 0)
           next == La(pos, 1)
           L == Top.level
       IN  IF atEnd(dpos) THEN Return(Callers, Top.node, dpos, nodes, metas)
           ELSE IF atEnd(pos) THEN Return(Callers, Top.node, pos, nodes, metas)
           ELSE IF cur.kind = "SECTION" /\ cur.level <= L
               THEN Return(Callers, Top.node, pos, nodes, metas)
           ELSE IF cur.kind = "TABLE_LINE"
               THEN Throw(RError(pos, nodes, metas, "unexpected table line", cur.lineNo, 1))
           ELSE IF /\ cur.kind \in {"BLOCK_ANCHOR", "BLOCK_ATTRS"}
                   /\ next.kind = "SECTION"
                   /\ next.level <= L
               THEN Return(Callers, Top.node, pos, nodes, metas)
           ELSE \E r \in {parseBlock(pos, nodes, metas)} : Apply(r, stack)

\* one iteration of the container loop of Parser::parseDelimited, or its end
\* with expect(k, "closing delimiter")
ParseDelimited ==
    /\ Running("delimited")
    /\ UNCHANGED dpeek
    /\ \E pos \in {skipBlankAndLineComments(dpos)} :
       LET k == Top.k
       IN  IF atEnd(dpos) \/ La(dpos, 0).kind = k
           THEN \E r \in {expectClose(dpos, nodes, metas, k, Top.node)} : Apply(r, Callers)
           ELSE IF La(pos, 0).kind = k
           THEN \E r \in {expectClose(pos, nodes, metas, k, Top.node)} : Apply(r, Callers)
           ELSE \E r \in {parseBlock(pos, nodes, metas)} : Apply(r, stack)

\* one iteration of the body loop of Parser::parseDirective
ParseDirective ==
    /\ Running("directive")
    /\ UNCHANGED dpeek
    /\ \E pos \in {skipBlankAndLineComments(dpos)} :
       LET t == La(pos, 0)
           endNode == [NewNode("Directive", t.lineNo, 0) EXCEPT
                          !.name = <<"e", "n", "d", "i", "f">>, !.text = t.rest]
       IN  IF atEnd(dpos) THEN Return(Callers, Top.node, dpos, nodes, metas)
           ELSE IF t.kind = "DIRECTIVE" /\ StartsWith(Trimmed(t.raw), EndifLit)
               THEN Return(Callers, Top.node, Take(pos),
                           AddChild(Append(nodes, endNode), Top.node, Len(nodes) + 1), metas)
           ELSE IF atEnd(pos) THEN Return(Callers, Top.node, pos, nodes, metas)
           ELSE \E r \in {parseBlock(pos, nodes, metas)} : Apply(r, stack)

CheckMarks == { <<"[", "*", "]">>, <<"[", "x", "]">>, <<"[", " ", "]">> }

\* Parser::parseList.  With no item open: the test of the item loop, and the
\* marker line of the next item (with the definition line of a description
\* item).  With an item open: one continuation of the item, or its end.
ParseList ==
    /\ Running("list")
    /\ UNCHANGED dpeek
    /\ LET lst == Top.node
           type == nodes[lst].ltype
           t == La(dpos, 0)
           id == Len(nodes) + 1
           isCheck == \E c \in CheckMarks : StartsWith(t.rest, c)
           item == IF type = "description"
                   THEN [NewNode("ListItem", t.lineNo, 0) EXCEPT
                            !.level = t.level, !.name = t.rest]
                   ELSE [NewNode("ListItem", t.lineNo, 0) EXCEPT
                            !.level = t.level,
                            !.check = IF isCheck THEN SubSeq(t.rest, 2, 2) ELSE <<>>]
           payload == IF isCheck THEN Trimmed(Mid(t.rest, 3)) ELSE t.rest
           def == La(Take(dpos), 0)
           hasPara == IF type = "description"
                      THEN def.kind = "TEXT" /\ Trimmed(def.raw) # <<>>
                      ELSE TRUE
           para == [NewNode("Paragraph", t.lineNo, 0) EXCEPT
                       !.inl = IF type = "description" THEN Trimmed(def.raw) ELSE payload]
           after == IF type = "description" /\ hasPara THEN Take(Take(dpos)) ELSE Take(dpos)
           cont == skipBlankAndLineComments(Take(dpos))
       IN  IF Top.item = 0
           THEN IF \/ type = "description" /\ t.kind # "DESC_TERM"
                   \/ type = "ordered" /\ t.kind # "OL_ITEM"
                   \/ type = "unordered" /\ t.kind # "UL_ITEM"
                THEN Return(Callers, lst, dpos, nodes, metas)
                ELSE /\ nodes' = IF hasPara
                                 THEN AddChild(Append(Append(nodes, item), para), id, id + 1)
                                 ELSE Append(nodes, item)
                     /\ stack' = [stack EXCEPT ![Len(stack)].item = id]
                     /\ dpos' = skipBlankAndLineComments(after)
                     /\ UNCHANGED <<input, dtoks, dhaveErr, derr, metas, freed, root,
                                    outErr, pc, ltok, gen, drv>>
           ELSE IF t.kind = "LIST_CONT"
                THEN \E r \in {IF type # "description"
                                THEN parseBlock(cont, nodes, metas)
                                ELSE IF La(cont, 0).kind \in BlockDelims
                                THEN parseDelimited(cont, nodes, metas, 0)
                                ELSE parseParagraphOrLiteral(cont, nodes, metas, 0)} :
                         Apply(r, stack)
                ELSE /\ nodes' = AddChild(nodes, lst, Top.item)
                     /\ stack' = [stack EXCEPT ![Len(stack)].item = 0]
                     /\ dpos' = skipBlankAndLineComments(dpos)
                     /\ UNCHANGED <<input, dtoks, dhaveErr, derr, metas, freed, root,
                                    outErr, pc, ltok, gen, drv>>

Next ==
    \/ Parse
    \/ ParseDocument
    \/ ParseSection
    \/ ParseDelimited
    \/ ParseDirective
    \/ ParseList

(***************************************************************************)
(* The inputs: texts of up to MaxLines lines drawn from Lines.             *)
(***************************************************************************)
MaxLines == 3

Lines ==
    { <<>>,                                             \* BLANK
      <<"[", "[", "a", "]", "]">>,                      \* BLOCK_ANCHOR
      <<".", "T">>,                                     \* BLOCK_TITLE
      <<"=", " ", "A">>,                                \* SECTION, level 1
      <<"=", "=", " ", "B">>,                           \* SECTION, level 2
      <<"x">>,                                          \* TEXT
      <<"|", "=", "=", "=">>,                           \* TABLE_DELIM
      <<"|", "a", "|", "b">>,                           \* TABLE_LINE, two cells
      <<"|", "c">>,                                     \* TABLE_LINE, one cell
      <<"_", "_", "_", "_">>,                           \* DELIM_QUOTE
      <<"-", "-", "-", "-">>,                           \* DELIM_LISTING
      <<"*", " ", "i">>,                                \* UL_ITEM
      <<"+">>,                                          \* LIST_CONT
      <<"i", "f", "d", "e", "f", ":", ":", "a", "[", "]">>,   \* DIRECTIVE ifdef
      <<"e", "n", "d", "i", "f", ":", ":", "[", "]">> } \* DIRECTIVE endif

Texts(alphabet, n) ==
    UNION { {Join(ls, <<"\n">>) : ls \in [1..k -> alphabet]} : k \in 1..n }

InitWith(text) ==
    /\ input = text
    /\ dtoks = <<>>
    /\ dpos = 0
    /\ dhaveErr = FALSE
    /\ derr = NoError
    /\ nodes = <<>>
    /\ metas = <<>>
    /\ freed = {}
    /\ stack = <<>>
    /\ root = 0
    /\ outErr = NoError
    /\ pc = "idle"
    /\ ltok = NoTok
    /\ gen = <<>>
    /\ drv = NoRun
    /\ dpeek = 0

Init == \E text \in Texts(Lines, MaxLines) : InitWith(text)

Spec == Init /\ [][Next]_vars

(***************************************************************************)
(* The inputs of the table line splitter: a table of one line, the line a  *)
(* '|' followed by up to MaxCellLine characters of CellChars, or the       *)
(* example line of the language description.                               *)
(***************************************************************************)
MaxCellLine == 6

CellChars == {"|", "\\", "a", " "}

ExampleLine == <<"|", "a", "\\", "|", "b", " ", "|", "c">>

CellLines ==
    {ExampleLine} \cup
    UNION { {<<"|">> \o w : w \in [1..k -> CellChars]} : k \in 0..MaxCellLine }

InitCells == \E l \in CellLines : InitWith(<<"|", "=", "=", "=", "\n">> \o l)

NextCells == Parse \/ ParseDocument

SpecCells == InitCells /\ [][NextCells]_vars

(***************************************************************************)
(* A Lexer used on its own, as by dumpTokens: setInput, then take() calls, *)
(* which may go on after the end of the token list.  The inputs are texts  *)
(* of up to MaxLexLines lines of LexLines, joined by one of LineEnds.      *)
(***************************************************************************)
\* Lexer::setInput on a fresh Lexer
SetInput ==
    /\ pc = "idle"
    /\ dtoks' = setInput(input)
    /\ dpos' = 0
    /\ pc' = "lexing"
    /\ UNCHANGED <<input, dhaveErr, derr, nodes, metas, freed, stack, root, outErr,
                   ltok, gen, drv, dpeek>>

\* Lexer::take
LexTake ==
    /\ pc = "lexing"
    /\ ltok' = peek(dtoks, dpos, 0)
    /\ dpos' = takePos(dtoks, dpos)
    /\ UNCHANGED <<input, dtoks, dhaveErr, derr, nodes, metas, freed, stack, root, outErr,
                   pc, gen, drv, dpeek>>

MaxLexLines == 2

Dots(n) == [i \in 1..n |-> "."]

LexLines ==
    { <<>>, <<"x">>, <<" ", "x", " ">>,
      <<"-", "-", "-", "-">>, <<".", ".", ".", ".">>, <<"_", "_", "_", "_">>,
      <<"=", "=", "=", "=">>, <<"*", "*", "*", "*">>, <<"-", "-">>,
      <<"/", "/", "/", "/">>, <<" ", "_", "_", "_", "_", " ">>,
      <<"=", " ", "A">>, <<"a", ":", ":">> }
    \cup { Dots(n) \o <<" ", "x">> : n \in 1..7 }

LineEnds == { <<"\n">>, <<"\r", "\n">>, <<"\r">> }

RECURSIVE LexTexts(_)
LexTexts(n) ==
    IF n = 1 THEN LexLines
    ELSE LexTexts(n - 1)
         \cup { t \o e \o l : t \in LexTexts(n - 1), e \in LineEnds, l \in LexLines }

InitLex == \E text \in LexTexts(MaxLexLines) : InitWith(text)

NextLex == SetInput \/ LexTake

SpecLex == InitLex /\ [][NextLex]_vars

(***************************************************************************)
(* The inputs for block attribute lines and description lists: texts of up *)
(* to MaxMarkupLines lines of MarkupLines.                                 *)
(***************************************************************************)
MaxMarkupLines == 3

MarkupLines ==
    { <<>>,                                             \* BLANK
      <<"x">>,                                          \* TEXT
      <<"[", ".", "a", "]">>,                           \* [.a], a role
      <<"[", "s", ",", "p", "]">>,                      \* [s,p], two attributes
      <<".", "T">>,                                     \* BLOCK_TITLE
      <<"a", ":", ":">>,                                \* a::
      <<"a", ":", ":", " ", "b">>,                      \* a:: b
      <<"c", ":", ":", " ", "d">>,                      \* c:: d
      <<"+">>,                                          \* LIST_CONT
      <<"=", " ", "A">> }                               \* SECTION, level 1

InitMarkup == \E text \in Texts(MarkupLines, MaxMarkupLines) : InitWith(text)

NextMarkup == Parse \/ ParseDocument \/ ParseSection \/ ParseList

SpecMarkup == InitMarkup /\ [][NextMarkup]_vars

(***************************************************************************)
(* The inline scanner.  Parser::parseInlineContent is a pure function of   *)
(* the text it is given, so a block node keeps that text in inl and the    *)
(* inline children are scanned where they are read.  An inline node is a   *)
(* record of its kind, name, target, text and children.                    *)
(***************************************************************************)
\* stands for the grave accent character (U+0060)
GraveAccent == "U+0060"

BoldLit == <<"b", "o", "l", "d">>
ItalicLit == <<"i", "t", "a", "l", "i", "c">>
MonoLit == <<"m", "o", "n", "o">>
HighlightLit == <<"h", "i", "g", "h", "l", "i", "g", "h", "t">>
FootnoteLit == <<"f", "o", "o", "t", "n", "o", "t", "e">>
StemLit == <<"s", "t", "e", "m">>
SmallcapsMacros == { <<"k", "b", "d">>, <<"b", "t", "n">>, <<"m", "e", "n", "u">> }

\* an indexOf that finds the last occurrence instead of the first
IndexFrom_Last(s, p, from) ==
    LET hits == {i \in from..(Len(s) - Len(p)) : SubSeq(s, i + 1, i + Len(p)) = p}
    IN  IF hits = {} THEN -1 ELSE CHOOSE i \in hits : \A j \in hits : i >= j

\* QString::indexOf(p, from): the 0-based place of the first occurrence of
\* p at or after from, or -1
IndexFrom(s, p, from) ==
    LET hits == {i \in from..(Len(s) - Len(p)) : SubSeq(s, i + 1, i + Len(p)) = p}
    IN  IF hits = {} THEN -1 ELSE CHOOSE i \in hits : \A j \in hits : i <= j

\* QChar::isLetterOrNumber, for the characters of the texts used here
IsLetterOrNumber(c) ==
    c \in {"a", "b", "c", "d", "e", "f", "g", "h", "i", "j", "k", "l", "m", "n", "o",
           "p", "q", "r", "s", "t", "u", "v", "w", "x", "y", "z", "A", "B", "C", "D",
           "E", "F", "G", "H", "I", "J", "K", "L", "M", "N", "O", "P", "Q", "R", "S",
           "T", "U", "V", "W", "X", "Y", "Z", "0", "1", "2", "3", "4", "5", "6", "7",
           "8", "9"}

\* isUrlSchemeStart
isUrlSchemeStart(s, i) ==
    \E scheme \in { <<"h", "t", "t", "p", ":">>, <<"h", "t", "t", "p", "s", ":">>,
                    <<"f", "t", "p", ":">>, <<"i", "r", "c", ":">>,
                    <<"m", "a", "i", "l", "t", "o", ":">> } :
        StartsWith(Mid(s, i), scheme)

InlineNode(kind, lineNo, name, target, text, children) ==
    [kind |-> kind, line |-> lineNo, name |-> name, target |-> target, text |-> text,
     children |-> children]

\* Parser::pushText
pushText(t, lineNo) ==
    IF t = <<>> THEN <<>> ELSE <<InlineNode("Text", lineNo, <<>>, <<>>, t, <<>>)>>

\* what one construct of the scanner found at a place: the node without its
\* children, whether inner is scanned for the children, and the place after
Found(kind, name, target, text, rec, inner, next) ==
    [hit |-> TRUE, kind |-> kind, name |-> name, target |-> target, text |-> text,
     rec |-> rec, inner |-> inner, next |-> next]

NotFound == [hit |-> FALSE]

\* QString::mid(i, n)
MidN(s, i, n) == SubSeq(s, i + 1, Min(i + n, Len(s)))

\* a construct that opens and closes with fence: the close is the first
\* fence after the open, and there is something between them
Paired(s, i, fence, kind, name, rec) ==
    LET n == Len(fence)
        j == IndexFrom(s, fence, i + n)
    IN  IF MidN(s, i, n) = fence /\ j > i + n
        THEN IF rec
             THEN Found(kind, name, <<>>, <<>>, TRUE, MidN(s, i + n, j - (i + n)), j + n)
             ELSE Found(kind, name, <<>>, MidN(s, i + n, j - (i + n)), FALSE, <<>>, j + n)
        ELSE NotFound

\* {name}
AttrRefAt(s, i) ==
    LET j == IndexFrom(s, <<"}">>, i + 1)
    IN  IF s[i + 1] = "{" /\ j > i + 1
        THEN Found("AttrRef", Trimmed(MidN(s, i + 1, j - i - 1)), <<>>, <<>>, FALSE, <<>>,
                   j + 1)
        ELSE NotFound

\* <<id,text>> and [[id,text]]: the part after the first comma is scanned
Bracketed(s, i, open, close, kind) ==
    LET j == IndexFrom(s, close, i + 2)
        inner == MidN(s, i + 2, j - (i + 2))
        comma == IndexOf(inner, <<",">>)
        id == IF comma < 0 THEN Trimmed(inner) ELSE Trimmed(Left(inner, comma))
    IN  IF MidN(s, i, 2) = open /\ j > i + 2
        THEN Found(kind,
                   IF kind = "AnchorInline" THEN id ELSE <<>>,
                   IF kind = "Xref" THEN id ELSE <<>>,
                   <<>>, comma >= 0,
                   IF comma < 0 THEN <<>> ELSE Trimmed(Mid(inner, comma + 1)), j + 2)
        ELSE NotFound

\* the end of a URL: the first space, "[" or "]" at or after i, or the end
RECURSIVE UrlEnd(_, _)
UrlEnd(s, j) ==
    IF j < Len(s) /\ ~IsSpace(s[j + 1]) /\ s[j + 1] \notin {"[", "]"}
    THEN UrlEnd(s, j + 1) ELSE j

LinkAt(s, i) ==
    IF isUrlSchemeStart(s, i) /\ UrlEnd(s, i) > i + 5
    THEN Found("Link", <<>>, MidN(s, i, UrlEnd(s, i) - i), <<>>, FALSE, <<>>, UrlEnd(s, i))
    ELSE NotFound

\* name:target[inner]
MacroAt(s, i) ==
    LET colon == IndexFrom(s, <<":">>, i)
        lb == IndexFrom(s, <<"[">>, colon + 1)
        rb == IndexFrom(s, <<"]">>, lb + 1)
    IN  IF /\ colon > i
           /\ \A k \in (i + 1)..colon : IsLetterOrNumber(s[k]) \/ s[k] \in {"_", "-"}
           /\ colon + 1 < Len(s)
           /\ lb > colon
           /\ rb > lb
        THEN Found("InlineMacro", MidN(s, i, colon - i), MidN(s, colon + 1, lb - (colon + 1)),
                   <<>>, TRUE, MidN(s, lb + 1, rb - (lb + 1)), rb + 1)
        ELSE NotFound

\* +...+, ++...++ and +++...+++: the fence is the whole run of "+" at i
PlusRun(s, i) == RunLen(Mid(s, i), "+", Len(s))

PassthroughAt(s, i) ==
    IF PlusRun(s, i) \in 1..3
    THEN Paired(s, i, [k \in 1..PlusRun(s, i) |-> "+"], "PassthroughInline", <<>>, TRUE)
    ELSE NotFound

\* the constructs of the loop of parseInlineContentRec, in its order
InlineRules(s, i) ==
    << AttrRefAt(s, i),
       Bracketed(s, i, <<"<", "<">>, <<">", ">">>, "Xref"),
       Bracketed(s, i, <<"[", "[">>, <<"]", "]">>, "AnchorInline"),
       LinkAt(s, i),
       MacroAt(s, i),
       Paired(s, i, <<"*", "*">>, "Emph", BoldLit, TRUE),
       Paired(s, i, <<"*">>, "Emph", BoldLit, TRUE),
       Paired(s, i, <<"_", "_">>, "Emph", ItalicLit, TRUE),
       Paired(s, i, <<"_">>, "Emph", ItalicLit, TRUE),
       Paired(s, i, <<GraveAccent, GraveAccent>>, "Emph", MonoLit, TRUE),
       Paired(s, i, <<GraveAccent>>, "Emph", MonoLit, FALSE),
       Paired(s, i, <<"#">>, "Emph", HighlightLit, TRUE),
       Paired(s, i, <<"^">>, "Superscript", <<>>, FALSE),
       Paired(s, i, <<"~">>, "Subscript", <<>>, FALSE),
       PassthroughAt(s, i) >>

\* the first construct that is found at i, or NotFound
FirstFound(rules) ==
    IF \E k \in 1..Len(rules) : rules[k].hit
    THEN rules[CHOOSE k \in 1..Len(rules) :
                   rules[k].hit /\ \A l \in 1..(k - 1) : ~rules[l].hit]
    ELSE NotFound

RECURSIVE InlineLoop(_, _, _, _, _)

\* Parser::parseInlineContentRec
parseInlineContentRec(s, lineNo, depth) == InlineLoop(s, 0, <<>>, lineNo, depth)

\* the loop of parseInlineContentRec from place i, with the text acc not
\* yet pushed
InlineLoop(s, i, acc, lineNo, depth) ==
    IF i >= Len(s) THEN pushText(acc, lineNo)
    ELSE LET m == FirstFound(InlineRules(s, i))
         IN  IF m.hit
             THEN pushText(acc, lineNo)
                  \o <<InlineNode(m.kind, lineNo, m.name, m.target, m.text,
                                  IF m.rec
                                  THEN parseInlineContentRec(m.inner, lineNo, depth + 1)
                                  ELSE <<>>)>>
                  \o InlineLoop(s, m.next, <<>>, lineNo, depth)
             ELSE InlineLoop(s, i + 1, Append(acc, s[i + 1]), lineNo, depth)

\* Parser::parseInlineContent
parseInlineContent(s, lineNo) == parseInlineContentRec(s, lineNo, 0)

(***************************************************************************)
(* The Typst generator.  What an emit routine writes to its stream is a    *)
(* sequence of pieces: the literals of the code, and the characters of the *)
(* texts of the tree.  A result is ok with the pieces written, or not ok   *)
(* with the pieces written before the failure and the TypstGenError.  The  *)
(* routines read the tree of the Parser: nodes and metas.                  *)
(***************************************************************************)
NoGenError == [line |-> 0, message |-> <<>>]

Emitted(out) == [ok |-> TRUE, out |-> out, err |-> NoGenError]

failAt(line, msg) == [ok |-> FALSE, out |-> <<>>, err |-> [line |-> line, message |-> msg]]

\* r, and after it the pieces of out if r did not fail
Close(r, out) == IF r.ok THEN [r EXCEPT !.out = @ \o out] ELSE r

\* the pieces of out, and after them r
Prepend(out, r) == [r EXCEPT !.out = out \o @]

\* r, and after it rest if r did not fail
AndThen(r, rest) == IF r.ok THEN Prepend(r.out, rest) ELSE r

\* TypstGenerator::escString
RECURSIVE escString(_)
escString(s) ==
    IF s = <<>> THEN <<>>
    ELSE (CASE Head(s) = "\\" -> <<"\\", "\\">>
            [] Head(s) = "\"" -> <<"\\", "\"">>
            [] Head(s) = "\n" -> <<"\\", "n">>
            [] Head(s) = "\r" -> <<>>
            [] OTHER -> <<Head(s)>>) \o escString(Tail(s))

EscapedInText == {"\\", "*", "_", GraveAccent, "#", "[", "]", "<", ">"}

\* TypstGenerator::escText
RECURSIVE escText(_)
escText(s) ==
    IF s = <<>> THEN <<>>
    ELSE (IF Head(s) \in EscapedInText THEN <<"\\", Head(s)>> ELSE <<Head(s)>>)
         \o escText(Tail(s))

\* TypstGenerator::labelSuffix
labelSuffix(m) ==
    IF m = 0 THEN <<>>
    ELSE IF metas[m].anchorId = <<>> THEN <<>>
    ELSE <<" <">> \o metas[m].anchorId \o <<">">>

MaxHeading == 6

\* a headingMarks without the upper limit
headingMarks_Unlimited(level) == [i \in 1..(IF level < 1 THEN 1 ELSE level) |-> "="]

\* TypstGenerator::headingMarks
headingMarks(level) ==
    [i \in 1..(IF level < 1 THEN 1 ELSE IF level > MaxHeading THEN MaxHeading ELSE level)
        |-> "="]

DecimalDigits == <<"0", "1", "2", "3", "4", "5", "6", "7", "8", "9">>

\* QTextStream << int, for a number that is not negative
RECURSIVE Decimal(_)
Decimal(n) ==
    IF n < 10 THEN <<DecimalDigits[n + 1]>>
    ELSE Decimal(n \div 10) \o <<DecimalDigits[(n % 10) + 1]>>

RECURSIVE emitInline(_, _)
RECURSIVE emitInlineSeq(_, _)

\* TypstGenerator::emitInlineSeq
emitInlineSeq(inl, opt) ==
    IF inl = <<>> THEN Emitted(<<>>)
    ELSE AndThen(emitInline(Head(inl), opt), emitInlineSeq(Tail(inl), opt))

\* the cases of emitInline that write an opening, the children and a closing
Wrapped(open, n, opt, close) ==
    Prepend(open, Close(emitInlineSeq(n.children, opt), close))

\* TypstGenerator::emitInline
emitInline(n, opt) ==
    CASE n.kind = "Text" -> Emitted(escText(n.text))
      [] n.kind = "Emph" ->
            IF n.name = BoldLit THEN Wrapped(<<"*">>, n, opt, <<"*">>)
            ELSE IF n.name = ItalicLit THEN Wrapped(<<"_">>, n, opt, <<"_">>)
            ELSE IF n.name = MonoLit
            THEN IF n.text # <<>>
                 THEN Emitted(<<GraveAccent>> \o escText(n.text) \o <<GraveAccent>>)
                 ELSE Wrapped(<<GraveAccent>>, n, opt, <<GraveAccent>>)
            ELSE IF n.name = HighlightLit THEN Wrapped(<<"#highlight([">>, n, opt, <<"])">>)
            ELSE failAt(n.line, <<"Unknown inline emphasis kind: ">> \o n.name)
      [] n.kind = "Superscript" -> Emitted(<<"#super[">> \o escText(n.text) \o <<"]">>)
      [] n.kind = "Subscript" -> Emitted(<<"#sub[">> \o escText(n.text) \o <<"]">>)
      [] n.kind = "Link" ->
            IF n.children = <<>>
            THEN Emitted(<<"#link(\"">> \o escString(n.target) \o <<"\")[">>
                         \o escText(n.target) \o <<"]">>)
            ELSE Wrapped(<<"#link(\"">> \o escString(n.target) \o <<"\")[">>, n, opt,
                         <<"]">>)
      [] n.kind = "Xref" ->
            IF n.children = <<>> THEN Emitted(<<"@">> \o escText(n.target))
            ELSE Wrapped(<<"#link(<">> \o escText(n.target) \o <<">)[">>, n, opt, <<"]">>)
      [] n.kind = "AnchorInline" -> Emitted(<<"<">> \o escText(n.name) \o <<">">>)
      [] n.kind = "AttrRef" -> Emitted(<<"{">> \o escText(n.name) \o <<"}">>)
      [] n.kind = "InlineMacro" ->
            IF n.name = FootnoteLit THEN Wrapped(<<"#footnote[">>, n, opt, <<"]">>)
            ELSE IF n.name \in SmallcapsMacros THEN Wrapped(<<"#smallcaps[">>, n, opt, <<"]">>)
            ELSE IF n.name = StemLit
            THEN IF ~opt.allowRawPassthrough
                 THEN failAt(n.line,
                             <<"stem: inline macro requires raw passthrough or math conversion phase">>)
                 ELSE Emitted(<<"$">> \o escText(n.target) \o <<"$">>)
            ELSE failAt(n.line, <<"Unsupported inline macro in Typst generator: ">> \o n.name)
      [] n.kind = "PassthroughInline" ->
            IF ~opt.allowRawPassthrough THEN failAt(n.line, <<"Inline passthrough disabled">>)
            ELSE emitInlineSeq(n.children, opt)
      [] OTHER -> failAt(n.line, <<"Unsupported inline node kind in generator">>)

\* the inline children of a block node
InlineOf(n) == parseInlineContent(nodes[n].inl, nodes[n].line)

\* an emitPreamble that writes the preamble only in the first run
emitPreamble_FirstRunOnly(opt) ==
    IF gen = <<>> THEN Emitted(<<"// LeanDoc -> Typst (plain)\n">>) ELSE Emitted(<<>>)

\* TypstGenerator::emitPreamble
emitPreamble(opt) ==
    IF opt.templateFile # <<>>
    THEN Emitted(<<"#import \"">> \o escString(opt.templateFile) \o <<"\": *\n\n">>)
    ELSE IF opt.templateName = "plain"
    THEN Emitted(<<"// LeanDoc -> Typst (plain)\n",
                   "#set page(margin: 2cm)\n",
                   "#set text(font: \"Linux Libertine\", size: 11pt)\n\n",
                   "#let admon(kind, body) = block(\n",
                   "  inset: (x: 10pt, y: 8pt),\n",
                   "  radius: 4pt,\n",
                   "  fill: luma(240),\n",
                   "  stroke: luma(200),\n",
                   "  [*#kind:* ] + body,\n",
                   ")\n\n">>)
    ELSE IF opt.templateName = "report"
    THEN Emitted(<<"// LeanDoc -> Typst (report)\n",
                   "#set page(margin: (top: 2cm, bottom: 2.2cm, x: 2.2cm))\n",
                   "#set text(font: \"Libertinus Serif\", size: 11pt, leading: 1.25em)\n",
                   "#set heading(numbering: \"1.\")\n\n",
                   "#let admon(kind, body) = block(\n",
                   "  inset: (x: 12pt, y: 10pt),\n",
                   "  radius: 6pt,\n",
                   "  fill: rgb(\"f6f7fb\"),\n",
                   "  stroke: rgb(\"cfd6e6\"),\n",
                   "  [#text(weight: \"bold\")[#kind] ] + body,\n",
                   ")\n\n">>)
    ELSE failAt(0, <<"Unknown templateName: ", opt.templateName>>)

\* TypstGenerator::emitParagraph
emitParagraph(n, opt) == Close(emitInlineSeq(InlineOf(n), opt), <<"\n">>)

\* TypstGenerator::emitLiteral
emitLiteral(n) ==
    Emitted(<<"#raw(\"">> \o escString(nodes[n].text) \o <<"\", block: true)\n">>)

\* TypstGenerator::emitAdmonition
emitAdmonition(n, opt) ==
    Prepend(<<"#admon(\"">> \o escString(nodes[n].name) \o <<"\", [">>,
            Close(emitInlineSeq(InlineOf(n), opt), <<"])\n">>))

ImageLit == <<"i", "m", "a", "g", "e">>
VideoLit == <<"v", "i", "d", "e", "o">>
AudioLit == <<"a", "u", "d", "i", "o">>

\* the path of an image macro: the trimmed target up to its first '['
ImagePath(t) == IF IndexOf(t, <<"[">>) < 0 THEN t ELSE Trimmed(Left(t, IndexOf(t, <<"[">>)))

\* QString::toUpper of the two media macro names
MediaUpper(name) ==
    IF name = VideoLit THEN <<"V", "I", "D", "E", "O">> ELSE <<"A", "U", "D", "I", "O">>

\* TypstGenerator::emitBlockMacro
emitBlockMacro(n) ==
    IF nodes[n].name = Chop(IncludeLit, 2)
    THEN failAt(nodes[n].line,
                <<"include:: requires semantic include expansion before Typst generation">>)
    ELSE IF nodes[n].name = ImageLit
    THEN Emitted(<<"#image(\"">> \o escString(ImagePath(Trimmed(nodes[n].target)))
                 \o <<"\")\n">>)
    ELSE IF nodes[n].name \in {VideoLit, AudioLit}
    THEN Emitted(<<"#link(\"">>
                 \o escString(nodes[n].name \o ColonColon \o Trimmed(nodes[n].target))
                 \o <<"\")[">>
                 \o escText(MediaUpper(nodes[n].name) \o <<":", " ">>
                            \o Trimmed(nodes[n].target))
                 \o <<"]\n">>)
    ELSE failAt(nodes[n].line,
                <<"Unsupported block macro in Typst generator: ">> \o nodes[n].name)

\* an emitDirective that writes nothing and goes on
emitDirective_Ignored(n) == Emitted(<<>>)

\* TypstGenerator::emitDirective
emitDirective(n) ==
    failAt(nodes[n].line,
           <<"Directives must be resolved before Typst generation (">> \o nodes[n].name
           \o <<")">>)

\* the rows of a table: its children of kind TableRow
TableRows(n) == SelectSeq(nodes[n].children, LAMBDA r : nodes[r].kind = "TableRow")

\* the cells of one row of emitTable
RECURSIVE emitCells(_, _)
emitCells(cells, opt) ==
    IF cells = <<>> THEN Emitted(<<>>)
    ELSE Prepend(<<"  [">>,
                 AndThen(Close(emitInlineSeq(InlineOf(Head(cells)), opt), <<"],\n">>),
                         emitCells(Tail(cells), opt)))

\* the row loop of emitTable
RECURSIVE emitRows(_, _, _)
emitRows(rows, cols, opt) ==
    IF rows = <<>> THEN Emitted(<<>>)
    ELSE IF Len(nodes[Head(rows)].children) # cols
    THEN failAt(nodes[Head(rows)].line, <<"Table row has inconsistent number of cells">>)
    ELSE AndThen(emitCells(nodes[Head(rows)].children, opt),
                 emitRows(Tail(rows), cols, opt))

\* emitTable once the number of columns is known
emitTableOf(rows, cols, opt) ==
    IF cols <= 0 THEN Emitted(<<>>)
    ELSE Prepend(<<"#table(columns: ">> \o Decimal(cols) \o <<",\n">>,
                 Close(emitRows(rows, cols, opt), <<")\n">>))

\* TypstGenerator::emitTable
emitTable(n, opt) ==
    IF TableRows(n) = <<>> THEN Emitted(<<>>)
    ELSE emitTableOf(TableRows(n), Len(nodes[Head(TableRows(n))].children), opt)

RECURSIVE emitNode(_, _, _)
RECURSIVE emitBlocks(_, _, _)
RECURSIVE emitItemBlocks(_, _)
RECURSIVE emitItems(_, _)
RECURSIVE emitTerms(_, _)

\* the loops of generate, emitSection and emitDelimited: each child, and a
\* newline after it
emitBlocks(ids, opt, headingShift) ==
    IF ids = <<>> THEN Emitted(<<>>)
    ELSE AndThen(Close(emitNode(Head(ids), opt, headingShift), <<"\n">>),
                 emitBlocks(Tail(ids), opt, headingShift))

\* TypstGenerator::emitSection
emitSection(n, opt, headingShift) ==
    Prepend(headingMarks(IF nodes[n].level + headingShift < 1 THEN 1
                         ELSE nodes[n].level + headingShift)
            \o <<" ">> \o escText(nodes[n].name) \o labelSuffix(nodes[n].meta)
            \o <<"\n\n">>,
            emitBlocks(nodes[n].children, opt, headingShift))

\* an emitDelimited that writes a stem block whatever the options say
emitDelimited_StemAllowed(n, opt) ==
    IF nodes[n].children # <<>>
    THEN Prepend(<<"#block([">>, Close(emitBlocks(nodes[n].children, opt, 0), <<"])\n">>))
    ELSE IF nodes[n].stem
    THEN Emitted(nodes[n].text \o <<"\n">>)
    ELSE Emitted(<<"#raw(\"">> \o escString(nodes[n].text) \o <<"\", block: true)\n">>)

\* TypstGenerator::emitDelimited
emitDelimited(n, opt) ==
    IF nodes[n].children # <<>>
    THEN Prepend(<<"#block([">>, Close(emitBlocks(nodes[n].children, opt, 0), <<"])\n">>))
    ELSE IF nodes[n].stem
    THEN IF ~opt.allowRawPassthrough
         THEN failAt(nodes[n].line,
                     <<"Stem block requires raw passthrough or math conversion phase">>)
         ELSE Emitted(nodes[n].text \o <<"\n">>)
    ELSE Emitted(<<"#raw(\"">> \o escString(nodes[n].text) \o <<"\", block: true)\n">>)

\* the children of one item of emitList, a newline between them
emitItemBlocks(ids, opt) ==
    IF ids = <<>> THEN Emitted(<<>>)
    ELSE AndThen(Close(emitNode(Head(ids), opt, 0),
                       IF Len(ids) > 1 THEN <<"\n">> ELSE <<>>),
                 emitItemBlocks(Tail(ids), opt))

\* the item loop of emitList for an ordered or unordered list
emitItems(ids, opt) ==
    IF ids = <<>> THEN Emitted(<<>>)
    ELSE IF nodes[Head(ids)].kind # "ListItem" THEN emitItems(Tail(ids), opt)
    ELSE Prepend(<<"  [">>,
                 AndThen(Close(emitItemBlocks(nodes[Head(ids)].children, opt), <<"],\n">>),
                         emitItems(Tail(ids), opt)))

\* the item loop of emitList for a description list: the term, and the
\* first child of the item
emitTerms(ids, opt) ==
    IF ids = <<>> THEN Emitted(<<>>)
    ELSE IF nodes[Head(ids)].kind # "ListItem" THEN emitTerms(Tail(ids), opt)
    ELSE Prepend(<<"  [">> \o escText(nodes[Head(ids)].name) \o <<"], ", "[">>,
                 AndThen(Close(IF nodes[Head(ids)].children = <<>> THEN Emitted(<<>>)
                               ELSE emitNode(nodes[Head(ids)].children[1], opt, 0),
                               <<"],\n">>),
                         emitTerms(Tail(ids), opt)))

\* TypstGenerator::emitList
emitList(n, opt) ==
    IF nodes[n].ltype = "description"
    THEN Prepend(<<"#table(columns: 2,\n">>,
                 Close(emitTerms(nodes[n].children, opt), <<")\n">>))
    ELSE Prepend(<<IF nodes[n].ltype = "ordered" THEN "#enum(" ELSE "#list(", "\n">>,
                 Close(emitItems(nodes[n].children, opt), <<")\n">>))

\* TypstGenerator::emitNode
emitNode(n, opt, headingShift) ==
    IF n = 0 THEN Emitted(<<>>)
    ELSE CASE nodes[n].kind = "Section" -> emitSection(n, opt, headingShift)
           [] nodes[n].kind = "Paragraph" -> emitParagraph(n, opt)
           [] nodes[n].kind = "LiteralParagraph" -> emitLiteral(n)
           [] nodes[n].kind = "AdmonitionParagraph" -> emitAdmonition(n, opt)
           [] nodes[n].kind = "DelimitedBlock" -> emitDelimited(n, opt)
           [] nodes[n].kind = "List" -> emitList(n, opt)
           [] nodes[n].kind = "Table" -> emitTable(n, opt)
           [] nodes[n].kind = "BlockMacro" -> emitBlockMacro(n)
           [] nodes[n].kind = "Directive" -> emitDirective(n)
           [] nodes[n].kind = "ThematicBreak" -> Emitted(<<"---\n">>)
           [] nodes[n].kind = "PageBreak" -> Emitted(<<"#pagebreak()\n">>)
           [] nodes[n].kind = "LineComment" ->
                Emitted(<<"// ">> \o escText(nodes[n].text) \o <<"\n">>)
           [] OTHER -> failAt(nodes[n].line, <<"Unsupported block node kind in generator">>)

\* doc->kv.value("title")
DocTitle(doc) ==
    IF \E i \in 1..Len(nodes[doc].hdr) : nodes[doc].hdr[i][1] = "title"
    THEN nodes[doc].hdr[CHOOSE i \in 1..Len(nodes[doc].hdr) : nodes[doc].hdr[i][1] = "title"][2]
    ELSE <<>>

\* the title heading of generate
emitTitle(title) ==
    IF title = <<>> THEN <<>> ELSE <<"= ">> \o escText(title) \o <<"\n\n">>

\* TypstGenerator::generate
generate(doc, opt) ==
    IF doc = 0 THEN failAt(0, <<"Root node is not a Document">>)
    ELSE IF nodes[doc].kind # "Document"
    THEN failAt(nodes[doc].line, <<"Root node is not a Document">>)
    ELSE AndThen(emitPreamble(opt),
                 Prepend(emitTitle(DocTitle(doc)), emitBlocks(nodes[doc].children, opt, 0)))

(***************************************************************************)
(* The driver after a successful parse: a TypstGenerator is constructed    *)
(* with its Options and generate runs on the tree; up to MaxRuns calls are *)
(* made on one tree.  The inputs are texts of up to MaxGenLines lines of   *)
(* GenLines.                                                               *)
(***************************************************************************)
MaxRuns == 2

\* TypstGenerator::Options: the default ones, and a template name that is
\* not built in
GenOptions ==
    { [templateName |-> "plain", templateFile |-> <<>>, allowRawPassthrough |-> TRUE],
      [templateName |-> "book", templateFile |-> <<>>, allowRawPassthrough |-> TRUE] }

\* one call on a generator and what it gave
GenCall(fn, node, headingShift, opt, r) ==
    [fn |-> fn, node |-> node, shift |-> headingShift, opt |-> opt,
     ok |-> r.ok, out |-> r.out, err |-> r.err]

\* TypstGenerator::generate on the tree that Parser::parse returned
GenerateWith(options) ==
    /\ pc = "done"
    /\ root # 0
    /\ Len(gen) < MaxRuns
    /\ \E opt \in options :
          gen' = Append(gen, GenCall("generate", root, 0, opt, generate(root, opt)))
    /\ UNCHANGED <<input, dtoks, dpos, dhaveErr, derr, nodes, metas, freed, stack, root,
                   outErr, pc, ltok, drv, dpeek>>

Generate == GenerateWith(GenOptions)

MaxGenLines == 3

GenLines ==
    { <<>>,                                             \* BLANK
      <<"x">>,                                          \* TEXT
      <<"=", " ", "A">>,                                \* the document title
      <<"=", "=", " ", "#">>,                           \* SECTION, level 2
      <<"=", "=", "=", "=", "=", "=", " ", "F">>,       \* SECTION, level 6
      <<"[", "[", "a", "]", "]">>,                      \* BLOCK_ANCHOR
      <<"_", "_", "_", "_">>,                           \* DELIM_QUOTE
      <<"-", "-", "-", "-">>,                           \* DELIM_LISTING
      <<"*", " ", "i">>,                                \* UL_ITEM
      IncludeLit \o <<"f", "[", "]">> }                 \* BLOCK_MACRO

InitGen == \E text \in Texts(GenLines, MaxGenLines) : InitWith(text)

NextGen ==
    \/ Parse
    \/ ParseDocument
    \/ ParseSection
    \/ ParseDelimited
    \/ ParseList
    \/ Generate

SpecGen == InitGen /\ [][NextGen]_vars

(***************************************************************************)
(* emitSection on its own: one call on a Section of a parsed tree, with a  *)
(* heading shift of Shifts.  The inputs are texts of up to MaxGenLines     *)
(* lines of HeadingLines.                                                  *)
(***************************************************************************)
MinShift == 0 - 1
MaxShift == 1

Shifts == MinShift..MaxShift

\* TypstGenerator::emitSection on a Section of the tree
EmitSection ==
    /\ pc = "done"
    /\ root # 0
    /\ gen = <<>>
    /\ \E n \in 1..Len(nodes) : \E headingShift \in Shifts : \E opt \in GenOptions :
          /\ nodes[n].kind = "Section"
          /\ gen' = Append(gen, GenCall("emitSection", n, headingShift, opt,
                                        emitSection(n, opt, headingShift)))
    /\ UNCHANGED <<input, dtoks, dpos, dhaveErr, derr, nodes, metas, freed, stack, root,
                   outErr, pc, ltok, drv, dpeek>>

HeadingLines ==
    { <<"x">>,                                          \* TEXT
      <<"=", "=", " ", "#">>,                           \* SECTION, level 2
      <<"=", "=", "=", " ", "C">>,                      \* SECTION, level 3
      <<"=", "=", "=", "=", "=", "=", " ", "F">>,       \* SECTION, level 6
      <<"[", "[", "a", "]", "]">> }                     \* BLOCK_ANCHOR

InitHeadings == \E text \in Texts(HeadingLines, MaxGenLines) : InitWith(text)

NextHeadings ==
    \/ Parse
    \/ ParseDocument
    \/ ParseSection
    \/ EmitSection

SpecHeadings == InitHeadings /\ [][NextHeadings]_vars

(***************************************************************************)
(* generate on trees with constructs that need a later phase: directives,  *)
(* include macros, inline passthrough and stem.  The trees are parsed from *)
(* texts of up to MaxEmitLines lines of EmitLines and from the lines of    *)
(* NestedLines, or are StemTree, which a caller of the generator has       *)
(* built: the lexer has no rule that gives STEM_ATTR_LINE, so no tree of   *)
(* the Parser has a stem block.  The Options are those that leandoc2typst  *)
(* sets with and without --no-raw.                                         *)
(***************************************************************************)
RawOptions ==
    { [templateName |-> "plain", templateFile |-> <<>>, allowRawPassthrough |-> raw] :
        raw \in BOOLEAN }

GenerateRaw == GenerateWith(RawOptions)

MaxEmitLines == 2

\* n copies of c
Run(c, n) == [k \in 1..n |-> c]

EmitLines ==
    { <<"x">>,                                          \* a Text
      <<"+", "x", "+">>,                                \* a PassthroughInline
      StemLit \o <<":", "[", "x", "]">>,                \* an InlineMacro stem
      <<"*", "+", "x", "+", "*">>,                      \* a PassthroughInline in an Emph
      IfdefLit \o <<"a", "[", "]">>,                    \* DIRECTIVE ifdef
      EndifLit \o <<"[", "]">>,                         \* DIRECTIVE endif
      IncludeLit \o <<"f", "[", "]">> }                 \* BLOCK_MACRO include

\* MaxNest copies of "#", a character, and MaxNest copies of "#"
MaxNest == 13

\* lines with paired constructs inside each other, each a text of its own
NestedLines ==
    { <<"*", "_", GraveAccent, "c", GraveAccent, "_", "*">>,
      <<"*", "*", "a", "*", "_", "#", "+", "x", "+", "#", "_", "*", "a", "*", "*">>,
      Run("#", MaxNest) \o <<"a">> \o Run("#", MaxNest) }

\* a Document with a paragraph and a stem block
StemTree ==
    << [NewNode("Document", 1, 0) EXCEPT !.children = <<2, 3>>],
       [NewNode("Paragraph", 1, 0) EXCEPT !.inl = <<"x">>],
       [NewNode("DelimitedBlock", 3, 0) EXCEPT
           !.delim = "DELIM_PASSTHROUGH", !.stem = TRUE, !.text = <<"x">>] >>

InitEmit ==
    \/ \E text \in Texts(EmitLines, MaxEmitLines) \cup NestedLines : InitWith(text)
    \/ /\ input = <<>>
       /\ dtoks = <<>>
       /\ dpos = 0
       /\ dhaveErr = FALSE
       /\ derr = NoError
       /\ nodes = StemTree
       /\ metas = <<>>
       /\ freed = {}
       /\ stack = <<>>
       /\ root = 1
       /\ outErr = NoError
       /\ pc = "done"
       /\ ltok = NoTok
       /\ gen = <<>>
       /\ drv = NoRun
       /\ dpeek = 0

NextEmit ==
    \/ Parse
    \/ ParseDocument
    \/ ParseDirective
    \/ GenerateRaw

SpecEmit == InitEmit /\ [][NextEmit]_vars

(***************************************************************************)
(* Raw delimited blocks: texts of up to MaxRawLines lines of RawBlockLines, *)
(* with fences of two kinds, an indented fence and an indented text line.  *)
(***************************************************************************)
MaxRawLines == 4

RawBlockLines ==
    { <<>>,                                             \* BLANK
      <<"x">>,                                          \* TEXT
      <<" ", "y", " ">>,                                \* TEXT with spaces around it
      <<"-", "-", "-", "-">>,                           \* DELIM_LISTING
      <<" ", "-", "-", "-", "-", " ">>,                 \* DELIM_LISTING, indented
      <<".", ".", ".", ".">> }                          \* DELIM_LITERAL

InitRaw == \E text \in Texts(RawBlockLines, MaxRawLines) : InitWith(text)

NextRaw == Parse \/ ParseDocument

SpecRaw == InitRaw /\ [][NextRaw]_vars

(***************************************************************************)
(* One Parser object used for several parse calls, as a caller may do that *)
(* keeps the Parser and the ParseError it passes: up to MaxParses calls on *)
(* texts of up to MaxReuseLines lines of ReuseLines.  The nodes of the     *)
(* earlier calls stay on the heap.                                         *)
(***************************************************************************)
MaxParses == 2
MaxReuseLines == 2

ReuseLines ==
    { <<"x">>,                                          \* TEXT
      <<"=", "=", " ", "B">>,                           \* SECTION, level 2
      <<"-", "-", "-", "-">> }                          \* DELIM_LISTING

\* the parse calls made so far: each one has allocated its Document
ParseCalls == Cardinality({n \in 1..Len(nodes) : nodes[n].kind = "Document"})

\* a parse entry that leaves the error state of the Parser as it is
parseEntry_KeepsError(text) ==
    [dtoks |-> setInput(text), dpos |-> 0, dhaveErr |-> dhaveErr, derr |-> derr]

\* Parser::parse up to its try block
parseEntry(text) ==
    [dtoks |-> setInput(text), dpos |-> 0, dhaveErr |-> FALSE, derr |-> NoError]

\* a further call of Parser::parse on the same Parser, with the same outErr,
\* up to its call of parseDocument
ParseAgain ==
    /\ pc = "done"
    /\ ParseCalls < MaxParses
    /\ \E text \in Texts(ReuseLines, MaxReuseLines) :
          /\ input' = text
          /\ \E e \in {parseEntry(text)} :
                /\ dtoks' = e.dtoks
                /\ dpos' = e.dpos
                /\ dhaveErr' = e.dhaveErr
                /\ derr' = e.derr
    /\ root' = 0
    /\ stack' = <<Frame("document", 0, 0, "", 0)>>
    /\ pc' = "parsing"
    /\ dpeek' = 0
    /\ UNCHANGED <<nodes, metas, freed, outErr, ltok, gen, drv>>

InitReuse == \E text \in Texts(ReuseLines, MaxReuseLines) : InitWith(text)

NextReuse ==
    \/ Parse
    \/ ParseAgain
    \/ ParseDocument
    \/ ParseSection

SpecReuse == InitReuse /\ [][NextReuse]_vars

(***************************************************************************)
(* leandoc2typst: main.  MainStart is main up to the call of Parser::parse *)
(* (the argument loop, the two usage checks and readFileUtf8), the parse   *)
(* actions are the call, and MainFinish is main after it.  The text of the *)
(* input file is input; what the file system does with an open and with a  *)
(* write is chosen where main makes the call.  QFile::write gives the      *)
(* number of bytes written or -1, and writeFileUtf8 does not look at it.   *)
(***************************************************************************)
\* the arguments as the loop of main leaves them: inPath set or empty,
\* --ast or not, outPath "output.typ" or emptied by -o "", --no-raw or not
MainArgs ==
    [inPath : BOOLEAN, modeAst : BOOLEAN, outPath : {<<"o">>, <<>>}, noRaw : BOOLEAN]

\* readFileUtf8: whether the file could be opened
readFileUtf8(opened) == opened

\* writeFileUtf8: false if the file could not be opened; else what write
\* has put into the file, and true
writeFileUtf8(text, opened, written) ==
    IF ~opened THEN [ok |-> FALSE, file |-> "untouched", text |-> <<>>]
    ELSE [ok |-> TRUE, file |-> "written", text |-> IF written THEN text ELSE <<>>]

Exit(code, io) == [drv EXCEPT !.code = code, !.io = io]

MainStart ==
    /\ pc = "main"
    /\ \E a \in MainArgs, opened \in BOOLEAN :
          IF ~a.inPath \/ (~a.modeAst /\ a.outPath = <<>>)
          THEN /\ pc' = "exit"
               /\ drv' = [drv EXCEPT !.args = a, !.code = 2, !.io = "usage"]
          ELSE IF ~readFileUtf8(opened)
          THEN /\ pc' = "exit"
               /\ drv' = [drv EXCEPT !.args = a, !.code = 2, !.io = "read"]
          ELSE /\ pc' = "idle"
               /\ drv' = [drv EXCEPT !.args = a]
    /\ UNCHANGED <<input, dtoks, dpos, dhaveErr, derr, nodes, metas, freed, stack, root,
                   outErr, ltok, gen, dpeek>>

\* the Options that the argument loop of main has set
genOpt(a) ==
    [templateName |-> "plain", templateFile |-> <<>>, allowRawPassthrough |-> ~a.noRaw]

\* main after a successful generate: deleteTree, writeFileUtf8, return
MainWrite(typ, w) ==
    /\ freed' = freed \cup deleteTree(nodes, root)
    /\ drv' = IF w.ok
              THEN [drv EXCEPT !.code = 0, !.typ = typ, !.file = w.file, !.text = w.text,
                               !.io = IF w.text = typ THEN "none" ELSE "write"]
              ELSE [drv EXCEPT !.code = 2, !.typ = typ, !.io = "open"]

MainFinish ==
    /\ pc = "done"
    /\ drv.code = NotExited
    /\ pc' = "exit"
    /\ IF root = 0
       THEN drv' = Exit(1, "none") /\ freed' = freed
       ELSE IF drv.args.modeAst
       THEN drv' = [drv EXCEPT !.code = 0, !.dumped = TRUE] /\ freed' = freed
       ELSE IF ~generate(root, genOpt(drv.args)).ok
       THEN /\ drv' = [drv EXCEPT !.code = 1, !.genFailed = TRUE]
            /\ freed' = freed \cup deleteTree(nodes, root)
       ELSE \E opened, written \in BOOLEAN :
               MainWrite(generate(root, genOpt(drv.args)).out,
                         writeFileUtf8(generate(root, genOpt(drv.args)).out, opened, written))
    /\ UNCHANGED <<input, dtoks, dpos, dhaveErr, derr, nodes, metas, stack, root, outErr,
                   ltok, gen, dpeek>>

MaxMainLines == 2

MainLines ==
    { <<"x">>,                                          \* a paragraph
      <<"+", "x", "+">>,                                \* fails in generate with --no-raw
      IncludeLit \o <<"f", "[", "]">>,                   \* fails in generate
      <<"-", "-", "-", "-">> }                          \* alone: a parse error

InitMain ==
    \E text \in Texts(MainLines, MaxMainLines) :
        /\ input = text
        /\ dtoks = <<>>
        /\ dpos = 0
        /\ dhaveErr = FALSE
        /\ derr = NoError
        /\ nodes = <<>>
        /\ metas = <<>>
        /\ freed = {}
        /\ stack = <<>>
        /\ root = 0
        /\ outErr = NoError
        /\ pc = "main"
        /\ ltok = NoTok
        /\ gen = <<>>
        /\ drv = NoRun
        /\ dpeek = 0

NextMain ==
    \/ MainStart
    \/ Parse
    \/ ParseDocument
    \/ MainFinish

SpecMain == InitMain /\ [][NextMain]_vars

(***************************************************************************)
(* Vocabulary of the properties.                                           *)
(***************************************************************************)
NodeIds == 1..Len(nodes)

MetaIds == 1..Len(metas)

\* Parser::parse has returned a tree
Returned == pc = "done" /\ root # 0

\* Parser::parse has returned null after a ParseError
Failed == pc = "done" /\ root = 0 /\ dhaveErr

\* the nodes that carry BlockMeta m
Holders(m) == {n \in NodeIds : nodes[n].meta = m}

MetaKinds == {"BLOCK_ANCHOR", "BLOCK_ATTRS", "BLOCK_TITLE"}

\* the largest element of a set of line numbers
MaxOf(S) == CHOOSE x \in S : \A y \in S : y <= x

\* the token after the last line of the metadata run of BlockMeta m
Follows(m) == La(MaxOf(metas[m].lines), 0)

\* the direct children of node n
Children(n) == {nodes[n].children[i] : i \in 1..Len(nodes[n].children)}

\* a block loop is about to test its next token
InBlockLoop(fns) ==
    /\ pc = "parsing"
    /\ stack # <<>>
    /\ Top.fn \in fns
    /\ Top.node # 0

(***************************************************************************)
(* C1.  In every returned tree each BlockMeta is attached to exactly one   *)
(* node, and that node starts on a line after every metadata line the      *)
(* BlockMeta was built from: no node on an earlier line carries it.        *)
(***************************************************************************)
C1_MetaOnFollowingBlock ==
    Returned =>
        \A m \in MetaIds :
            /\ Cardinality(Holders(m)) = 1
            /\ \A n \in Holders(m) : \A l \in metas[m].lines : nodes[n].line > l

\* a returned tree where an anchored block follows an earlier block
C1_Witness ==
    /\ Returned
    /\ \E m \in MetaIds : \E n \in Holders(m) : \E b \in NodeIds :
          /\ metas[m].anchorId # <<>>
          /\ nodes[b].kind \in {"Paragraph", "Section"}
          /\ \A l \in metas[m].lines : nodes[b].line < l

(***************************************************************************)
(* C2.  In every returned tree a Section that is a direct child of a       *)
(* Section S has a level strictly greater than the level of S.             *)
(***************************************************************************)
C2_ChildSectionsDeeper ==
    Returned =>
        \A s \in NodeIds : \A c \in Children(s) :
            nodes[s].kind = "Section" /\ nodes[c].kind = "Section"
                => nodes[c].level > nodes[s].level

(***************************************************************************)
(* C3.  When the loop of a section of level L stands before a metadata run *)
(* that is immediately followed by a SECTION token of level <= L, its next *)
(* step is the return of parseSection with the cursor still at the first   *)
(* line of the run.                                                        *)
(***************************************************************************)
C3_RunBeforeClosingSection ==
    LET pos == skipBlankAndLineComments(dpos)
        after == La(MetaRun(pos).pos, 0)
    IN  /\ InBlockLoop({"section"})
        /\ La(pos, 0).kind \in MetaKinds
        /\ after.kind = "SECTION"
        /\ after.level <= Top.level

C3_RunLeftToFollowingSection ==
    [][C3_RunBeforeClosingSection =>
          /\ dpos' = skipBlankAndLineComments(dpos)
          /\ Len(stack') = Len(stack) - 1
          /\ metas' = metas]_vars

(***************************************************************************)
(* C4.  When a block loop outside a table (document, section body,         *)
(* container delimited block, directive body) stands before a TABLE_LINE   *)
(* token, its next step ends the parse with a ParseError and no tree.      *)
(***************************************************************************)
C4_TableLineWhereBlockExpected ==
    /\ InBlockLoop({"document", "section", "delimited", "directive"})
    /\ La(skipBlankAndLineComments(dpos), 0).kind = "TABLE_LINE"

C4_StrayTableLineFails ==
    [][C4_TableLineWhereBlockExpected =>
          pc' = "done" /\ root' = 0 /\ dhaveErr']_vars

(***************************************************************************)
(* C5.  When the parse has returned, a metadata run followed by the end of *)
(* the input or by a line that starts no block (a blank line, a table line *)
(* outside a table, a list continuation) has made the parse fail with a    *)
(* ParseError, and no node carries its BlockMeta.                          *)
(***************************************************************************)
NoBlockKinds == {"EOF", "BLANK", "TABLE_LINE", "LIST_CONT"}

C5_DanglingMetadataFails ==
    pc = "done" =>
        \A m \in MetaIds :
            Follows(m).kind \in NoBlockKinds => Failed /\ Holders(m) = {}

(***************************************************************************)
(* C6.  When the parse has returned null after a ParseError, every node    *)
(* allocated during the parse has been deallocated.                        *)
(***************************************************************************)
C6_NothingLeakedOnError ==
    Failed => \A n \in NodeIds : n \in freed

(***************************************************************************)
(* C7.  A DelimitedBlock whose opening fence is followed by no token of    *)
(* the same fence kind makes the parse fail, so in a returned tree every   *)
(* DelimitedBlock has a later fence of its kind; the error of the missing  *)
(* fence is raised at the end of the input, carries the line of the        *)
(* current token, and leaves no tree.                                      *)
(***************************************************************************)
Unclosed(n) ==
    /\ nodes[n].kind = "DelimitedBlock"
    /\ \A j \in 1..Len(dtoks) :
          dtoks[j].kind = nodes[n].delim => dtoks[j].lineNo <= nodes[n].line

C7_MissingFenceFails ==
    pc = "done" =>
        /\ (\E n \in NodeIds : Unclosed(n)) => Failed
        /\ outErr.message = "Expected closing delimiter" =>
              /\ Failed
              /\ atEnd(dpos)
              /\ outErr.line = La(dpos, 0).lineNo

\* a container block with a child block in it, never closed
C7_Witness ==
    /\ Failed
    /\ outErr.message = "Expected closing delimiter"
    /\ \E n \in NodeIds : Unclosed(n) /\ nodes[n].children # <<>>

(***************************************************************************)
(* C8.  In every returned tree every TableRow of a Table has as many       *)
(* TableCell children as the first TableRow of that Table.                 *)
(***************************************************************************)
C8_RowsAsWideAsFirst ==
    Returned =>
        \A t \in NodeIds : \A r \in Children(t) :
            nodes[t].kind = "Table" =>
                /\ nodes[r].kind = "TableRow"
                /\ \A c \in Children(r) : nodes[c].kind = "TableCell"
                /\ Len(nodes[r].children) = Len(nodes[nodes[t].children[1]].children)

\* a returned table with two rows that start on the same source line: the
\* cells of a line wider than the first were dealt into several rows
C8_Witness ==
    /\ Returned
    /\ \E t \in NodeIds : \E r1, r2 \in Children(t) :
          /\ nodes[t].kind = "Table"
          /\ r1 # r2
          /\ nodes[r1].line = nodes[r2].line

(***************************************************************************)
(* C9.  For every Table: W is the number of cells of its first TABLE_LINE; *)
(* when the number of cells of all its TABLE_LINEs is a multiple of W the  *)
(* rows of the table are these cells, in source order, W to a row; when it *)
(* is not, the parse has failed with the table size error; and that error  *)
(* is raised for no other reason.                                          *)
(***************************************************************************)
\* the TABLE_LINE tokens between the opening |=== of table t and the next
\* |=== (or the end of the input)
TableLineToks(t) ==
    SelectSeq(dtoks, LAMBDA tok :
        /\ tok.kind = "TABLE_LINE"
        /\ tok.lineNo > nodes[t].line
        /\ \A j \in 1..Len(dtoks) :
              dtoks[j].kind = "TABLE_DELIM" /\ dtoks[j].lineNo > nodes[t].line
                  => dtoks[j].lineNo > tok.lineNo)

\* the cells of table t in source order
SourceCells(t) ==
    Flatten([i \in 1..Len(TableLineToks(t)) |-> readCells(TableLineToks(t)[i])])

TableWidth(t) == Len(readCells(TableLineToks(t)[1]))

TableSizeMessage == "the number of cells is not compatible with the table size"

Tables == {t \in NodeIds : nodes[t].kind = "Table" /\ TableLineToks(t) # <<>>}

Reflowed(t) ==
    LET W == TableWidth(t)
        cells == SourceCells(t)
        rows == nodes[t].children
    IN  /\ Len(rows) * W = Len(cells)
        /\ \A j \in 1..Len(rows) :
              /\ Len(nodes[rows[j]].children) = W
              /\ \A i \in 1..W :
                    nodes[nodes[rows[j]].children[i]] = cells[(j - 1) * W + i]

C9_ReflowOrSizeError ==
    /\ \A t \in Tables :
          IF Len(SourceCells(t)) % TableWidth(t) # 0
          THEN Failed /\ outErr.message = TableSizeMessage
          ELSE Reflowed(t)
    /\ outErr.message = TableSizeMessage =>
          /\ Failed
          /\ \E t \in Tables : Len(SourceCells(t)) % TableWidth(t) # 0

\* a table of a two-cell line and a one-cell line has failed
C9_Witness ==
    /\ Failed
    /\ outErr.message = TableSizeMessage
    /\ \E t \in Tables : TableWidth(t) = 2 /\ Len(SourceCells(t)) = 3

(***************************************************************************)
(* C10.  The cells of a table line are cut at the '|' characters preceded  *)
(* by an even number of backslashes; a '|' preceded by an odd number of    *)
(* backslashes stays in its cell and loses the backslash before it; what   *)
(* stands before the first separator is no cell.  The line |a\|b |c gives  *)
(* the two cells "a|b" and "c".                                            *)
(***************************************************************************)
\* the number of consecutive backslashes immediately before place i of r
RECURSIVE BsBefore(_, _)
BsBefore(r, i) ==
    IF i > 1 /\ r[i - 1] = "\\" THEN 1 + BsBefore(r, i - 1) ELSE 0

IsSeparator(r, i) == r[i] = "|" /\ BsBefore(r, i) % 2 = 0

IsLiteralPipe(r, i) == r[i] = "|" /\ BsBefore(r, i) % 2 = 1

\* the characters of r at the places from..to, without the backslash that
\* escapes a literal '|'
RECURSIVE Unescaped(_, _, _)
Unescaped(r, from, to) ==
    IF from > to THEN <<>>
    ELSE IF from < Len(r) /\ r[from] = "\\" /\ IsLiteralPipe(r, from + 1)
    THEN Unescaped(r, from + 1, to)
    ELSE <<r[from]>> \o Unescaped(r, from + 1, to)

\* the texts of the cells of line r: after every separator, up to the next
\* separator or the end of the line
ExpectedCells(r) ==
    LET seps == {i \in 1..Len(r) : IsSeparator(r, i)}
        nextSep(i) == IF \E j \in seps : j > i
                      THEN CHOOSE j \in seps : j > i /\ \A k \in seps : k > i => j <= k
                      ELSE Len(r) + 1
        RECURSIVE from(_)
        from(i) == IF i > Len(r) THEN <<>>
                   ELSE <<Trimmed(Unescaped(r, i + 1, nextSep(i) - 1))>> \o from(nextSep(i))
    IN  IF seps = {} THEN <<>> ELSE from(nextSep(0))

\* the texts of the TableCell nodes, in the order of their allocation
CellTexts ==
    LET cells == SelectSeq(nodes, LAMBDA n : n.kind = "TableCell")
    IN  [i \in 1..Len(cells) |-> cells[i].inl]

C10_CellsByBackslashParity ==
    (\E t \in NodeIds : nodes[t].kind = "Table") /\ dtoks[2].kind = "TABLE_LINE"
        => CellTexts = ExpectedCells(dtoks[2].raw)

\* the example line has been split into its two cells
C10_Witness ==
    /\ Returned
    /\ dtoks[2].raw = ExampleLine
    /\ CellTexts = << <<"a", "|", "b">>, <<"c">> >>

(***************************************************************************)
(* C11.  Every fence line is classified, after trimming, as its delimiter  *)
(* kind: "----" DELIM_LISTING, "...." DELIM_LITERAL, "____" DELIM_QUOTE,   *)
(* "====" DELIM_EXAMPLE, "****" DELIM_SIDEBAR, "--" DELIM_OPEN and "////"  *)
(* DELIM_COMMENT.                                                          *)
(***************************************************************************)
FenceKind(s) ==
    CASE s = <<"-", "-", "-", "-">> -> "DELIM_LISTING"
      [] s = <<".", ".", ".", ".">> -> "DELIM_LITERAL"
      [] s = <<"_", "_", "_", "_">> -> "DELIM_QUOTE"
      [] s = <<"=", "=", "=", "=">> -> "DELIM_EXAMPLE"
      [] s = <<"*", "*", "*", "*">> -> "DELIM_SIDEBAR"
      [] s = <<"-", "-">> -> "DELIM_OPEN"
      [] s = <<"/", "/", "/", "/">> -> "DELIM_COMMENT"
      [] OTHER -> ""

C11_FencesClassified ==
    \A i \in 1..Len(dtoks) :
        dtoks[i].kind # "EOF" /\ FenceKind(Trimmed(dtoks[i].raw)) # ""
            => dtoks[i].kind = FenceKind(Trimmed(dtoks[i].raw))

(***************************************************************************)
(* C12.  A line of n dots, 1 <= n <= 6, followed by whitespace and text is *)
(* an OL_ITEM token of level n whose rest is the text after the marker.    *)
(***************************************************************************)
DotMarker(s) ==
    IF \E n \in 1..MarkerLen : Len(s) > n + 1 /\ Left(s, n + 1) = Dots(n) \o <<" ">>
    THEN CHOOSE n \in 1..MarkerLen : Len(s) > n + 1 /\ Left(s, n + 1) = Dots(n) \o <<" ">>
    ELSE 0

C12_DotRunsAreOrderedItems ==
    \A i \in 1..Len(dtoks) :
        LET s == Trimmed(dtoks[i].raw)
            n == DotMarker(s)
        IN  dtoks[i].kind # "EOF" /\ n > 0
                => /\ dtoks[i].kind = "OL_ITEM"
                   /\ dtoks[i].level = n
                   /\ dtoks[i].rest = Trimmed(Mid(s, n))

(***************************************************************************)
(* C13.  A bracketed attribute line directly before a block is consumed as *)
(* metadata: in the returned tree the block on the next line carries a     *)
(* BlockMeta built from that line, with the entries of the line in attrs.  *)
(***************************************************************************)
\* token i is a bracketed attribute line, not a block anchor
IsAttrLine(i) ==
    LET s == Trimmed(dtoks[i].raw)
    IN  /\ dtoks[i].kind # "EOF"
        /\ Len(s) >= 3
        /\ s[1] = "[" /\ s[Len(s)] = "]"
        /\ ~StartsWith(s, <<"[", "[">>)

\* token i starts a block
StartsBlock(i) ==
    /\ dtoks[i].kind \notin {"EOF", "BLANK"}
    /\ Trimmed(dtoks[i].raw) # <<"+">>
    /\ ~IsAttrLine(i)

C13_AttrLineIsMetadata ==
    Returned =>
        \A i \in 1..(Len(dtoks) - 1) :
            IsAttrLine(i) /\ StartsBlock(i + 1)
                => \E m \in MetaIds :
                      /\ dtoks[i].lineNo \in metas[m].lines
                      /\ metas[m].attrs # <<>>
                      /\ \E n \in Holders(m) : nodes[n].line = dtoks[i + 1].lineNo

(***************************************************************************)
(* C14.  Consecutive lines of the form "term:: definition" are parsed as   *)
(* one List of type description with one ListItem per line: the name of    *)
(* the item is the term, and its single child is a Paragraph that holds    *)
(* the definition.                                                         *)
(***************************************************************************)
\* the positions in s of a "::" that ends a term and is followed by a definition
TermEnds(s) ==
    {p \in 2..(Len(s) - 3) :
        /\ SubSeq(s, p, p + 1) = ColonColon
        /\ s[p - 1] # ":"
        /\ IsSpace(s[p + 2])
        /\ Trimmed(SubSeq(s, p + 3, Len(s))) # <<>>}

\* token i is a line "term:: definition" where a block can start
IsTermLine(i) ==
    /\ dtoks[i].kind # "EOF"
    /\ TermEnds(Trimmed(dtoks[i].raw)) # {}

TermOf(i) ==
    LET s == Trimmed(dtoks[i].raw)
        p == CHOOSE q \in TermEnds(s) : \A r \in TermEnds(s) : q <= r
    IN  Trimmed(SubSeq(s, 1, p - 1))

DefinitionOf(i) ==
    LET s == Trimmed(dtoks[i].raw)
        p == CHOOSE q \in TermEnds(s) : \A r \in TermEnds(s) : q <= r
    IN  Trimmed(SubSeq(s, p + 3, Len(s)))

\* node it is the description item of token i: the term and one Paragraph
IsItemOf(it, i) ==
    /\ nodes[it].kind = "ListItem"
    /\ nodes[it].line = dtoks[i].lineNo
    /\ nodes[it].name = TermOf(i)
    /\ Len(nodes[it].children) = 1
    /\ nodes[nodes[it].children[1]].kind = "Paragraph"
    /\ nodes[nodes[it].children[1]].inl = DefinitionOf(i)

C14_TermLinesAreOneDescriptionList ==
    Returned =>
        \A i \in 1..Len(dtoks) :
            IsTermLine(i) /\ (i = 1 \/ dtoks[i - 1].kind = "BLANK" \/ IsTermLine(i - 1))
                => \E l \in NodeIds \ freed : \E it \in Children(l) :
                      /\ nodes[l].kind = "List"
                      /\ nodes[l].ltype = "description"
                      /\ IsItemOf(it, i)
                      /\ i > 1 /\ IsTermLine(i - 1)
                            => \E prev \in Children(l) : IsItemOf(prev, i - 1)

(***************************************************************************)
(* C15.  After setInput(text) the token list is one token per line of the  *)
(* text, in order, with lineNo 1, 2, ..., then exactly one EOF token: the  *)
(* raw texts of the line tokens joined by "\n" are the text, every token   *)
(* has a kind of LineTok, and only the last one is EOF.                    *)
(***************************************************************************)
LineKinds ==
    {"BLANK", "BLOCK_ANCHOR", "BLOCK_ATTRS", "BLOCK_TITLE", "SECTION", "ADMONITION",
     "LINE_COMMENT", "THEMATIC", "PAGEBREAK", "UL_ITEM", "OL_ITEM", "DESC_TERM",
     "LIST_CONT", "DELIM_LISTING", "DELIM_LITERAL", "DELIM_QUOTE", "DELIM_EXAMPLE",
     "DELIM_SIDEBAR", "DELIM_OPEN", "DELIM_COMMENT", "TABLE_DELIM", "TABLE_LINE",
     "BLOCK_MACRO", "DIRECTIVE", "TEXT"}

\* setInput has run on the Lexer
Lexed == pc = "lexing"

C15_OneTokenPerLineThenEof ==
    Lexed =>
        LET n == Len(dtoks)
        IN  /\ n >= 2
            /\ \A i \in 1..(n - 1) :
                  /\ dtoks[i].kind \in LineKinds
                  /\ dtoks[i].lineNo = i
                  /\ ~Contains(dtoks[i].raw, "\n")
            /\ dtoks[n].kind = "EOF"
            /\ dtoks[n].lineNo = n
            /\ Join([i \in 1..(n - 1) |-> dtoks[i].raw], <<"\n">>) = input

\* a text of two lines, the last one empty, has been lexed
C15_Witness ==
    /\ Lexed
    /\ Len(dtoks) = 3
    /\ dtoks[1].kind = "TEXT"
    /\ dtoks[2].kind = "BLANK" /\ dtoks[2].raw = <<>>
    /\ input = <<"x", "\n">>

(***************************************************************************)
(* C16.  After setInput, peek(k) returns the EOF token for every k >= 0    *)
(* with cursor + k at or past the last token; once atEnd() is true it      *)
(* stays true under further take() calls, and each of them returns EOF.    *)
(***************************************************************************)
MaxPeek == 3

PeekPastEndIsEof ==
    Lexed =>
        \A k \in 0..MaxPeek :
            dpos + k >= Len(dtoks) - 1
                => /\ peek(dtoks, dpos, k) = dtoks[Len(dtoks)]
                   /\ peek(dtoks, dpos, k).kind = "EOF"

TakeAtEndStaysAtEnd ==
    Lexed /\ atEnd(dpos) => peek(dtoks', dpos', 0).kind = "EOF" /\ ltok'.kind = "EOF"

C16_EofIsSticky == []PeekPastEndIsEof /\ [][TakeAtEndStaysAtEnd]_vars

\* take() has been called at the end of a text of two lines, the cursor is
\* past the last token
C16_Witness ==
    /\ Lexed
    /\ Len(dtoks) = 3
    /\ dpos = Len(dtoks)
    /\ ltok.kind = "EOF"

(***************************************************************************)
(* C17.  Each of "\n", "\r\n" and a lone "\r" is one line separator: a     *)
(* text with k separators of these forms yields k + 1 line tokens before   *)
(* the EOF token.                                                          *)
(***************************************************************************)
\* the number of separators in text: "\r\n" counts once
RECURSIVE Separators(_)
Separators(text) ==
    IF text = <<>> THEN 0
    ELSE IF Head(text) = "\r" /\ Len(text) >= 2 /\ text[2] = "\n"
    THEN 1 + Separators(Tail(Tail(text)))
    ELSE IF Head(text) \in {"\r", "\n"} THEN 1 + Separators(Tail(text))
    ELSE Separators(Tail(text))

C17_ThreeLineSeparators ==
    Lexed => Len(dtoks) - 1 = Separators(input) + 1

(***************************************************************************)
(* C18.  For every Section node n emitted with heading shift s, the        *)
(* heading line starts with exactly max(1, n.level + s) '=' characters,    *)
(* followed by exactly one space and the escaped title.                    *)
(***************************************************************************)
\* the calls of emitSection made so far
SectionCalls == {i \in 1..Len(gen) : gen[i].fn = "emitSection"}

\* the output of call c starts with k '=' characters, one space and the
\* escaped title of its Section
HeadingIs(c, k) ==
    LET o == c.out
        t == escText(nodes[c.node].name)
    IN  /\ Len(o) >= k + 1 + Len(t)
        /\ \A i \in 1..k : o[i] = "="
        /\ o[k + 1] = " "
        /\ SubSeq(o, k + 2, k + 1 + Len(t)) = t

AtLeastOne(k) == IF k < 1 THEN 1 ELSE k

Runs == {i \in 1..Len(gen) : gen[i].fn = "generate"}

SameRunsAgree ==
    \A i, j \in Runs :
        gen[i].node = gen[j].node /\ gen[i].opt = gen[j].opt
            => /\ gen[i].out = gen[j].out
               /\ gen[i].ok = gen[j].ok
               /\ gen[i].err = gen[j].err

GenerateReadsOnly ==
    gen' # gen => nodes' = nodes /\ metas' = metas /\ root' = root /\ freed' = freed

ContainerDelims == {"DELIM_QUOTE", "DELIM_EXAMPLE", "DELIM_SIDEBAR", "DELIM_OPEN"}

\* the pieces of seg are in out, one after the other
Occurs(out, seg) ==
    \E i \in 0..(Len(out) - Len(seg)) : SubSeq(out, i + 1, i + Len(seg)) = seg

C20_ContainersAreBlocks ==
    \A i \in Runs : \A n \in NodeIds :
        gen[i].ok /\ nodes[n].kind = "DelimitedBlock" /\ ~nodes[n].stem
            => IF nodes[n].delim \in ContainerDelims
               THEN Occurs(gen[i].out,
                           <<"#block([">> \o emitBlocks(nodes[n].children, gen[i].opt, 0).out
                           \o <<"])\n">>)
               ELSE Occurs(gen[i].out,
                           <<"#raw(\"">> \o escString(nodes[n].text)
                           \o <<"\", block: true)\n">>)

(***************************************************************************)
(* C21.  generate fails whenever emission reaches a BlockMacro named       *)
(* include or a Directive: the run is not ok, its TypstGenError carries    *)
(* the line of that node and a message, and the node's emit routine has    *)
(* written nothing.  Emission reaches a node when the preamble was written *)
(* and no block before the node, in the order of emission, has failed.     *)
(***************************************************************************)
\* the children of block n that emitNode hands on to emitNode
EmittedChildren(n) ==
    IF nodes[n].kind \in {"Document", "Section", "DelimitedBlock"}
    THEN nodes[n].children
    ELSE IF nodes[n].kind = "List"
    THEN Flatten([i \in 1..Len(nodes[n].children) |->
                    IF nodes[nodes[n].children[i]].kind # "ListItem" THEN <<>>
                    ELSE IF nodes[n].ltype = "description"
                    THEN Left(nodes[nodes[n].children[i]].children, 1)
                    ELSE nodes[nodes[n].children[i]].children])
    ELSE <<>>

\* the blocks below ids in the order in which emission enters them
RECURSIVE Walk(_)
Walk(ids) ==
    IF ids = <<>> THEN <<>>
    ELSE IF Head(ids) = 0 THEN Walk(Tail(ids))
    ELSE <<Head(ids)>> \o Walk(EmittedChildren(Head(ids))) \o Walk(Tail(ids))

\* block n has nothing below it and its own emit routine fails
FailsItself(n, opt) == EmittedChildren(n) = <<>> /\ ~emitNode(n, opt, 0).ok

\* emission of run i reaches the k-th block of the tree
Reaches(i, k) ==
    /\ emitPreamble(gen[i].opt).ok
    /\ \A l \in 1..(k - 1) : ~FailsItself(Walk(<<gen[i].node>>)[l], gen[i].opt)

Unresolved(n) ==
    \/ nodes[n].kind = "Directive"
    \/ nodes[n].kind = "BlockMacro" /\ nodes[n].name = Chop(IncludeLit, 2)

FailsAt(i, n) ==
    /\ ~gen[i].ok
    /\ gen[i].err.line = nodes[n].line
    /\ gen[i].err.line >= 1
    /\ gen[i].err.message # <<>>
    /\ emitNode(n, gen[i].opt, 0).out = <<>>

C21_UnresolvedNodesFail ==
    \A i \in Runs :
        \A k \in 1..Len(Walk(<<gen[i].node>>)) :
            Reaches(i, k) /\ Unresolved(Walk(<<gen[i].node>>)[k])
                => FailsAt(i, Walk(<<gen[i].node>>)[k])

\* a run has written a paragraph and has then failed at a Directive, and a
\* tree has an include macro that a run has failed at
C21_Witness ==
    \E i \in Runs :
        \E k \in 1..Len(Walk(<<gen[i].node>>)) :
            /\ k >= 3
            /\ Reaches(i, k)
            /\ Unresolved(Walk(<<gen[i].node>>)[k])
            /\ nodes[Walk(<<gen[i].node>>)[k - 1]].kind = "Paragraph"
            /\ gen[i].err.line = 2
            /\ Len(gen[i].out) > 1

(***************************************************************************)
(* C22.  Without raw passthrough, generate fails whenever emission reaches *)
(* a PassthroughInline, an InlineMacro named stem or a stem DelimitedBlock *)
(* without children: the run is not ok and its error is the one of that    *)
(* shape, at the line of the block.  With raw passthrough no run fails     *)
(* with one of these three errors.                                         *)
(***************************************************************************)
RawMessages ==
    { <<"Inline passthrough disabled">>,
      <<"stem: inline macro requires raw passthrough or math conversion phase">>,
      <<"Stem block requires raw passthrough or math conversion phase">> }

IsRawInline(h) ==
    \/ h.kind = "PassthroughInline"
    \/ h.kind = "InlineMacro" /\ h.name = StemLit

\* emitInline hands the children of h to emitInlineSeq
Descends(h) ==
    \/ h.kind = "Emph" /\ h.name \in {BoldLit, ItalicLit, HighlightLit}
    \/ h.kind = "Emph" /\ h.name = MonoLit /\ h.text = <<>>
    \/ h.kind \in {"Link", "Xref"} /\ h.children # <<>>
    \/ h.kind = "InlineMacro" /\ h.name \in SmallcapsMacros \cup {FootnoteLit}

\* emission of the inline nodes inl reaches one of the two inline shapes
\* before anything else in inl fails
RECURSIVE ReachesRaw(_)
ReachesRaw(inl) ==
    /\ inl # <<>>
    /\ \/ IsRawInline(Head(inl))
       \/ Descends(Head(inl)) /\ ReachesRaw(Head(inl).children)
       \/ /\ emitInline(Head(inl), CHOOSE opt \in RawOptions : opt.allowRawPassthrough).ok
          /\ ReachesRaw(Tail(inl))

\* block n is one of the shapes, or writes inline children that are
CarriesRaw(n) ==
    \/ nodes[n].kind = "DelimitedBlock" /\ nodes[n].stem /\ nodes[n].children = <<>>
    \/ nodes[n].kind \in {"Paragraph", "AdmonitionParagraph"} /\ ReachesRaw(InlineOf(n))

RawFailsAt(i, n) ==
    /\ ~gen[i].ok
    /\ gen[i].err.line = nodes[n].line
    /\ gen[i].err.message \in RawMessages

C22_RawNeedsPassthrough ==
    \A i \in Runs :
        IF gen[i].opt.allowRawPassthrough
        THEN gen[i].err.message \notin RawMessages
        ELSE \A k \in 1..Len(Walk(<<gen[i].node>>)) :
                Reaches(i, k) /\ CarriesRaw(Walk(<<gen[i].node>>)[k])
                    => RawFailsAt(i, Walk(<<gen[i].node>>)[k])

\* the two runs on a tree with a paragraph that does not start with one of
\* the shapes but reaches one: the one without raw passthrough has failed
\* at it, the one with raw passthrough has written it
C22_Witness ==
    \E i, j \in Runs :
        \E k \in 1..Len(Walk(<<gen[i].node>>)) :
            /\ gen[i].node = gen[j].node
            /\ ~gen[i].opt.allowRawPassthrough
            /\ gen[j].opt.allowRawPassthrough
            /\ Reaches(i, k)
            /\ CarriesRaw(Walk(<<gen[i].node>>)[k])
            /\ nodes[Walk(<<gen[i].node>>)[k]].kind = "Paragraph"
            /\ ~IsRawInline(Head(InlineOf(Walk(<<gen[i].node>>)[k])))
            /\ RawFailsAt(i, Walk(<<gen[i].node>>)[k])
            /\ gen[j].ok
            /\ Len(gen[j].out) > Len(gen[i].out)

(***************************************************************************)
(* C25.  The depth with which parseInlineContentRec is entered is bounded  *)
(* by the number of paired constructs whose inner text is scanned: the     *)
(* inner text handed on never contains the closing delimiter of its        *)
(* construct, so no construct occurs twice on a chain of nested calls,     *)
(* however many delimiters the line has.  The depth argument itself is     *)
(* only counted: a call entered with any depth scans its text as a call    *)
(* entered with depth 0 does.                                              *)
(***************************************************************************)
\* the largest depth with which parseInlineContentRec is entered when the
\* loop runs on s from place i in a call entered with depth
RECURSIVE DeepestEntry(_, _, _)
DeepestEntry(s, i, depth) ==
    IF i >= Len(s) THEN depth
    ELSE IF FirstFound(InlineRules(s, i)).hit
    THEN MaxOf({DeepestEntry(s, FirstFound(InlineRules(s, i)).next, depth)}
               \cup (IF FirstFound(InlineRules(s, i)).rec
                     THEN {DeepestEntry(FirstFound(InlineRules(s, i)).inner, 0, depth + 1)}
                     ELSE {}))
    ELSE DeepestEntry(s, i + 1, depth)

\* the closing delimiters of the constructs whose inner text is scanned
Rescanned ==
    { <<">", ">">>, <<"]", "]">>, <<"]">>, <<"*", "*">>, <<"*">>, <<"_", "_">>, <<"_">>,
      <<GraveAccent, GraveAccent>>, <<"#">>, <<"+", "+", "+">>, <<"+", "+">>, <<"+">> }

\* the largest depth limit that is tried for a guard
MaxGuard == 16

\* the texts that the parser has handed to parseInlineContent
Scanned == {nodes[n].inl : n \in NodeIds} \ {<<>>}

Exited == pc = "exit"

ParseOrGenerationFailed == (drv.io = "none" /\ root = 0 /\ dhaveErr) \/ drv.genFailed

C23_ExitCodes ==
    Exited =>
        /\ drv.code = 1 <=> ParseOrGenerationFailed
        /\ drv.code = 1 => drv.file = "untouched"
        /\ drv.code = 2 <=> drv.io \in {"usage", "read", "open", "write"}
        /\ drv.code = 0 => drv.dumped \/ (drv.file = "written" /\ drv.text = drv.typ)

LaterFences(n) ==
    {j \in (nodes[n].line + 1)..Len(dtoks) : dtoks[j].kind = nodes[n].delim}

FirstLaterFence(n) == CHOOSE j \in LaterFences(n) : \A l \in LaterFences(n) : j <= l

\* the raw lines strictly between token a and token b
RawBetween(a, b) == [j \in 1..(b - a - 1) |-> dtoks[a + j].raw]

IsRawBlock(n) == nodes[n].kind = "DelimitedBlock" /\ nodes[n].delim \in RawDelims

\* C26: the text of a raw DelimitedBlock is the raw lines strictly between
\* its opening fence and the first later token of the same fence kind,
\* joined by "\n"; the block ends there, so with a line after that fence
\* that is plain text the parse goes on with a Paragraph or LiteralParagraph
\* at that line; a raw block with no later fence of its kind fails the parse
C26_RawTextUpToFirstFence ==
    \A n \in NodeIds :
        IsRawBlock(n) =>
            /\ dtoks[nodes[n].line].kind = nodes[n].delim
            /\ IF LaterFences(n) = {}
               THEN pc = "done" /\ root = 0 /\ nodes[n].text = <<>>
               ELSE LET c == FirstLaterFence(n)
                    IN  /\ nodes[n].text = Join(RawBetween(nodes[n].line, c), <<"\n">>)
                        /\ pc = "done" /\ root # 0 /\ dtoks[c + 1].kind = "TEXT" =>
                               \E p \in NodeIds :
                                   /\ nodes[p].kind \in {"Paragraph", "LiteralParagraph"}
                                   /\ nodes[p].line = c + 1
                                   /\ p \in Children(root)

\* a listing block of one indented line that an indented fence closes, with
\* a paragraph after it
C26_Witness ==
    /\ pc = "done"
    /\ root # 0
    /\ Len(dtoks) = 5
    /\ \E n \in NodeIds :
          /\ IsRawBlock(n)
          /\ nodes[n].line = 1
          /\ nodes[n].text = <<" ", "y", " ">>
          /\ dtoks[3].raw = <<" ", "-", "-", "-", "-", " ">>
          /\ dtoks[4].kind = "TEXT"

(***************************************************************************)
(* C27: progress of the block loops.                                       *)
(***************************************************************************)
\* a step of a running block loop that allocates nodes: a block, a list item
\* or the endif node of a directive
AllocatesInLoop ==
    /\ pc = "parsing"
    /\ stack # <<>>
    /\ Top.node # 0
    /\ Len(nodes') > Len(nodes)

\* C27: every iteration of a block loop that parses a block consumes at
\* least one token, so the loops of Parser::parse end
C27_BlockLoopsConsume == [][AllocatesInLoop => dpos' > dpos]_vars

(***************************************************************************)
(* C28: the nodes of parseParagraphOrLiteral.                              *)
(***************************************************************************)
\* node n was made by parseParagraphOrLiteral: a Paragraph or LiteralParagraph
\* other than the Paragraph that parseList makes first in a list item
ByParagraphOrLiteral(n) ==
    /\ nodes[n].kind \in {"Paragraph", "LiteralParagraph"}
    /\ \A p \in NodeIds :
          nodes[p].kind = "ListItem" /\ nodes[p].children # <<>> => nodes[p].children[1] # n

\* the token at which node n starts
StartToken(n) == dtoks[CHOOSE j \in 1..Len(dtoks) : dtoks[j].lineNo = nodes[n].line]

\* C28: a node of parseParagraphOrLiteral starts at a TEXT token; as a
\* Paragraph it has an inline child, as a LiteralParagraph it has text
C28_ParagraphsStartAtText ==
    \A n \in NodeIds :
        ByParagraphOrLiteral(n) =>
            /\ StartToken(n).kind = "TEXT"
            /\ nodes[n].kind = "Paragraph" => InlineOf(n) # <<>>
            /\ nodes[n].kind = "LiteralParagraph" => nodes[n].text # <<>>

(***************************************************************************)
(* C29: what Parser::parse returns.                                        *)
(***************************************************************************)
\* C29: a returned parse gives a Document root exactly when no error was
\* raised; with a null root outErr is the raised error, with a line of at
\* least 1 and a message; with a tree outErr is the zero ParseError, also on
\* a Parser that has failed before
C29_RootOrError ==
    pc = "done" =>
        /\ root # 0 <=> ~dhaveErr
        /\ root # 0 => nodes[root].kind = "Document" /\ outErr = NoError
        /\ root = 0 => outErr = derr /\ outErr.line >= 1 /\ outErr.message # ""

\* a tree returned by a Parser whose earlier parse failed in a listing block
\* without a closing fence: the Document of that parse is still empty
C29_Witness ==
    /\ Returned
    /\ root > 1
    /\ outErr = NoError
    /\ nodes[1].kind = "Document"
    /\ nodes[1].children = <<>>
    /\ nodes[2].kind = "DelimitedBlock"
    /\ Children(root) # {}

(***************************************************************************)
(* C30: a table that the end of the input closes.                          *)
(***************************************************************************)
\* no |=== follows the opening |=== of table t
OpenAtEof(t) ==
    /\ nodes[t].kind = "Table"
    /\ \A j \in 1..Len(dtoks) : dtoks[j].kind = "TABLE_DELIM" => dtoks[j].lineNo <= nodes[t].line

\* table t holds the rows of the table lines read up to the end of the input
BuiltFromRowsRead(t) ==
    IF TableLineToks(t) = <<>> \/ SourceCells(t) = <<>>
    THEN nodes[t].children = <<>>
    ELSE Reflowed(t) /\ nodes[t].children # <<>>

\* the call of parseTable made in this step has allocated table t and has
\* met the end of the input before a closing |===
ParsesUnclosedTable(t) ==
    /\ pc = "parsing"
    /\ t = Len(nodes) + 1
    /\ OpenAtEof(t)'

=============================================================================
